---------------------------- MODULE Spec2Model ----------------------------
(***************************************************************************)
(* A model of reliqua's request-parameter pipeline:                        *)
(*   - reliqua/middleware.py: to_bool, TRANSFORMS, python_type, Parameter, *)
(*     Converter and ProcessParams;                                        *)
(*   - reliqua/sphinx_parser.py: the docstring grammar that produces the   *)
(*     parameter dictionaries ProcessParams consumes, and the operation    *)
(*     dict SphinxParser.parse returns;                                    *)
(*   - reliqua/openapi.py: Parameter and its type properties.              *)
(*                                                                         *)
(* Text is a sequence of one-character strings, so that str.strip,         *)
(* str.split, str.partition, int(), list() and the regular expressions are *)
(* computed character by character.  A Python value is a record            *)
(*   [t |-> type name, s |-> text, n |-> number, l |-> items]              *)
(* and a dict is a sequence of [k |-> key text, v |-> value] in insertion  *)
(* order.                                                                   *)
(***************************************************************************)
EXTENDS Integers, Sequences, FiniteSets, TLC

VARIABLES
    doc,         \* the docstring of the handler method (cleaned, as text)
    data,        \* resource.__data__[route][method]["parameters"]: list of dicts
    query,       \* the request's query-string parameters (request.params at entry)
    captures,    \* the path captures falcon passes as `params`
    media,       \* request.get_media(default_when_empty=None)
    params,      \* request.params
    schema,      \* the list of Parameter objects of the request in flight
    operators,   \* the local `operators` of ProcessParams.process
    idx,         \* position of the for loop of ProcessParams.process
    pc,          \* where the request is inside process_resource
    exc,         \* the exception that escaped process_resource ("none": none)
    boolArg,     \* argument of the to_bool call in progress
    boolRes,     \* what to_bool returned
    results,     \* the parse calls one SphinxParser has served, in order
    optArg,      \* argument `string` of the parse_options call in progress
    optRes,      \* what parse_options returned, or the exception it raised
    kwargs,      \* arguments of the openapi.Parameter being constructed
    apiParam,    \* the openapi.Parameter object
    apiView,     \* its datatype and items_type properties, as read
    control,     \* the AccessControl object (AuthMiddleware.control)
    resource,    \* the resource: its no_auth and __auth__ attributes
    req,         \* the request: uri_template and method
    role,        \* the role: argument of authorized, local of process_resource
    answer,      \* what the access-control methods returned or raised
    authenticators, \* what each authenticator of the middleware does when called
    calls,       \* the calls AuthMiddleware.process_resource has made, in order
    user,        \* local `user` of AuthMiddleware.process_resource
    authorized,  \* local `authorized` of AuthMiddleware.process_resource
    context,     \* req.context
    inflight,    \* the requests being processed concurrently, each with its own state
    attribute,   \* the attributes of the resource that enum options name
    served       \* the enum values each request obtained, in order

vars == <<doc, data, query, captures, media, params, schema, operators, idx, pc, exc,
          boolArg, boolRes, results, optArg, optRes, kwargs, apiParam, apiView,
          control, resource, req, role, answer, authenticators, calls, user, authorized,
          context, inflight, attribute, served>>

\* the variables of the authentication middleware
authVars == <<control, resource, req, role, answer, authenticators, calls, user, authorized,
              context>>

\* the variables of the authentication middleware, of concurrent requests and
\* of enum resolution
later == <<authVars, inflight, attribute, served>>

\* the variables of the parser, of openapi.Parameter and of the authentication
others == <<results, optArg, optRes, kwargs, apiParam, apiView, later>>

-----------------------------------------------------------------------------
(* Characters *)

LowerAlpha ==
    <<"a","b","c","d","e","f","g","h","i","j","k","l","m",
      "n","o","p","q","r","s","t","u","v","w","x","y","z">>

UpperAlpha ==
    <<"A","B","C","D","E","F","G","H","I","J","K","L","M",
      "N","O","P","Q","R","S","T","U","V","W","X","Y","Z">>

Digits == <<"0","1","2","3","4","5","6","7","8","9">>

Range(f) == {f[i] : i \in DOMAIN f}

\* str.isspace of one character (the characters str.strip() removes, regex \s)
IsSpace(c) == c \in {" ", "\t", "\n", "\r"}

\* regex \w
IsWord(c) == c \in Range(LowerAlpha) \cup Range(UpperAlpha) \cup Range(Digits) \cup {"_"}

IsDigit(c) == c \in Range(Digits)

DigitVal(c) == (CHOOSE i \in DOMAIN Digits : Digits[i] = c) - 1

LowerChar(c) ==
    IF c \in Range(UpperAlpha)
    THEN LowerAlpha[CHOOSE i \in DOMAIN UpperAlpha : UpperAlpha[i] = c]
    ELSE c

-----------------------------------------------------------------------------
(* Text: str methods *)

\* s[i:j] with 1-based inclusive bounds; empty when i > j
Slice(s, i, j) == IF i > j THEN <<>> ELSE SubSeq(s, i, j)

\* str.lower()
Lower(s) == [i \in DOMAIN s |-> LowerChar(s[i])]

\* s.strip(chars) for a set of characters
StripSet(s, cs) ==
    LET keep == {i \in DOMAIN s : s[i] \notin cs}
    IN  IF keep = {} THEN <<>>
        ELSE LET a == CHOOSE i \in keep : \A j \in keep : i <= j
                 b == CHOOSE i \in keep : \A j \in keep : j <= i
             IN  SubSeq(s, a, b)

\* str.strip()
Strip(s) == StripSet(s, {" ", "\t", "\n", "\r"})

\* s.startswith(p, at position i)
StartsAt(s, p, i) ==
    /\ i >= 1
    /\ i + Len(p) - 1 <= Len(s)
    /\ \A k \in 1..Len(p) : s[i + k - 1] = p[k]

\* positions where p occurs in s
Occurrences(s, p) == {i \in 1..Len(s) : StartsAt(s, p, i)}

\* `p in s` for str
Contains(s, p) == p = <<>> \/ Occurrences(s, p) # {}

Min(S) == CHOOSE x \in S : \A y \in S : x <= y
Max(S) == CHOOSE x \in S : \A y \in S : y <= x

\* str.partition(sep): <<head, sep, tail>>, or <<s, "", "">> when sep is absent
Partition(s, sep) ==
    LET occ == Occurrences(s, sep)
    IN  IF occ = {} THEN <<s, <<>>, <<>>>>
        ELSE LET i == Min(occ)
             IN  <<Slice(s, 1, i - 1), sep, Slice(s, i + Len(sep), Len(s))>>

\* str.split(c) for a one-character separator: never empty
RECURSIVE Split(_, _)
Split(s, c) ==
    LET occ == {i \in DOMAIN s : s[i] = c}
    IN  IF occ = {} THEN <<s>>
        ELSE LET i == Min(occ)
             IN  <<Slice(s, 1, i - 1)>> \o Split(Slice(s, i + 1, Len(s)), c)

\* sep.join(parts)
RECURSIVE Join(_, _)
Join(parts, sep) ==
    IF parts = <<>> THEN <<>>
    ELSE IF Len(parts) = 1 THEN parts[1]
    ELSE parts[1] \o sep \o Join(Tail(parts), sep)

\* Body applied to the value of x: an assignment `x = ...` whose right-hand
\* side is computed once
With(x, Body(_)) == Body(x)

\* the items of a sequence that satisfy a test, in order
RECURSIVE SelectIdx(_, _, _)
SelectIdx(s, keep, i) ==
    IF i > Len(s) THEN <<>>
    ELSE (IF i \in keep THEN <<s[i]>> ELSE <<>>) \o SelectIdx(s, keep, i + 1)

-----------------------------------------------------------------------------
(* Python values *)

PyNone      == [t |-> "NoneType", s |-> <<>>, n |-> 0, l |-> <<>>]
PyStr(s)    == [t |-> "str",   s |-> s,    n |-> 0, l |-> <<>>]
PyInt(n)    == [t |-> "int",   s |-> <<>>, n |-> n, l |-> <<>>]
PyFloat(n)  == [t |-> "float", s |-> <<>>, n |-> n, l |-> <<>>]
PyBool(b)   == [t |-> "bool",  s |-> <<>>, n |-> IF b THEN 1 ELSE 0, l |-> <<>>]
PyList(l)   == [t |-> "list",  s |-> <<>>, n |-> 0, l |-> l]
\* a dict value: l holds one two-item list [key, value] per entry
PyDict(l)   == [t |-> "dict",  s |-> <<>>, n |-> 0, l |-> l]

PyTrue  == PyBool(TRUE)
PyFalse == PyBool(FALSE)

\* the result of a call: a returned value or a raised exception
Ok(v)    == [exc |-> "none", val |-> v]
Raise(e) == [exc |-> e, val |-> PyNone]

\* bool(v): Python truthiness
Truthy(v) ==
    CASE v.t = "NoneType" -> FALSE
      [] v.t = "str"      -> v.s # <<>>
      [] v.t \in {"int", "float", "bool"} -> v.n # 0
      [] OTHER            -> v.l # <<>>

\* a == b for Python values (numbers compare by value across int, float, bool)
RECURSIVE PyEq(_, _)
PyEq(a, b) ==
    LET num == {"int", "float", "bool"}
    IN  CASE a.t \in num /\ b.t \in num -> a.n = b.n
          [] a.t # b.t -> FALSE
          [] a.t = "str" -> a.s = b.s
          [] a.t = "NoneType" -> TRUE
          [] OTHER -> /\ Len(a.l) = Len(b.l)
                      /\ \A i \in DOMAIN a.l : PyEq(a.l[i], b.l[i])

-----------------------------------------------------------------------------
(* Python builtins used by TRANSFORMS and by falcon's getters *)

RECURSIVE DigitsValue(_)
DigitsValue(ds) ==
    IF ds = <<>> THEN 0
    ELSE 10 * DigitsValue(SubSeq(ds, 1, Len(ds) - 1)) + DigitVal(ds[Len(ds)])

\* the text of an integer literal as int() and float() accept it: optional
\* sign, then digits, single underscores allowed between digits
IsIntLiteral(s) ==
    LET body == IF s # <<>> /\ s[1] \in {"+", "-"} THEN Tail(s) ELSE s
    IN  /\ body # <<>>
        /\ \A i \in DOMAIN body : IsDigit(body[i]) \/ body[i] = "_"
        /\ \A i \in DOMAIN body :
              body[i] = "_" => /\ i > 1 /\ i < Len(body)
                               /\ IsDigit(body[i - 1]) /\ IsDigit(body[i + 1])

IntLiteralValue(s) ==
    LET neg  == s[1] = "-"
        body == IF s[1] \in {"+", "-"} THEN Tail(s) ELSE s
        ds   == SelectIdx(body, {i \in DOMAIN body : body[i] # "_"}, 1)
    IN  IF neg THEN 0 - DigitsValue(ds) ELSE DigitsValue(ds)

\* the number a stripped text denotes, or the ValueError of int() and float()
NumberOfText(s) ==
    IF IsIntLiteral(s) THEN Ok(PyInt(IntLiteralValue(s))) ELSE Raise("ValueError")

\* int(v)
PyIntOf(v) ==
    CASE v.t = "str" -> NumberOfText(Strip(v.s))
      [] v.t \in {"int", "bool", "float"} -> Ok(PyInt(v.n))
      [] OTHER -> Raise("TypeError")

\* float(v); numbers are whole in this model (texts with a decimal point, an
\* exponent, inf or nan are not among the modelled inputs)
PyFloatOf(v) ==
    CASE v.t \in {"int", "bool", "float"} -> Ok(PyFloat(v.n))
      [] v.t = "str" ->
            With(NumberOfText(Strip(v.s)),
                 LAMBDA r : IF r.exc = "none" THEN Ok(PyFloat(r.val.n)) ELSE r)
      [] OTHER -> Raise("TypeError")

RECURSIVE NatText(_)
NatText(n) ==
    IF n < 10 THEN <<Digits[n + 1]>>
    ELSE NatText(n \div 10) \o <<Digits[(n % 10) + 1]>>

IntText(n) == IF n < 0 THEN <<"-">> \o NatText(0 - n) ELSE NatText(n)

\* repr(v) and str(v)
RECURSIVE Repr(_)
Repr(v) ==
    CASE v.t = "NoneType" -> <<"N","o","n","e">>
      [] v.t = "str"   -> IF "'" \in Range(v.s) /\ "\"" \notin Range(v.s)
                          THEN <<"\"">> \o v.s \o <<"\"">>
                          ELSE <<"'">> \o v.s \o <<"'">>
      [] v.t = "int"   -> IntText(v.n)
      [] v.t = "float" -> IntText(v.n) \o <<".", "0">>
      [] v.t = "bool"  -> IF v.n = 1 THEN <<"T","r","u","e">> ELSE <<"F","a","l","s","e">>
      [] v.t = "list"  -> <<"[">> \o Join([i \in DOMAIN v.l |-> Repr(v.l[i])], <<",", " ">>) \o <<"]">>
      [] OTHER         -> <<"{">> \o Join([i \in DOMAIN v.l |->
                                 Repr(v.l[i].l[1]) \o <<":", " ">> \o Repr(v.l[i].l[2])],
                             <<",", " ">>) \o <<"}">>

StrText(v) == IF v.t = "str" THEN v.s ELSE Repr(v)

\* str(v)
PyStrOf(v) == Ok(PyStr(StrText(v)))

\* list(v)
PyListOf(v) ==
    CASE v.t = "str"  -> Ok(PyList([i \in DOMAIN v.s |-> PyStr(<<v.s[i]>>)]))
      [] v.t = "list" -> Ok(v)
      [] v.t = "dict" -> Ok(PyList([i \in DOMAIN v.l |-> v.l[i].l[1]]))
      [] OTHER        -> Raise("TypeError")

\* the items list(v) iterates over, for an iterable v
IterItems(v) ==
    CASE v.t = "str"  -> [i \in DOMAIN v.s |-> PyStr(<<v.s[i]>>)]
      [] v.t = "dict" -> [i \in DOMAIN v.l |-> v.l[i].l[1]]
      [] OTHER        -> v.l

IsIterable(v) == v.t \in {"str", "list", "dict"}

\* dict(items) for the items of an iterable
DictOfItems(items) ==
    LET bad == {i \in DOMAIN items :
                   ~IsIterable(items[i]) \/ Len(IterItems(items[i])) # 2}
    IN  IF bad = {} THEN Ok(PyDict([i \in DOMAIN items |-> PyList(IterItems(items[i]))]))
        ELSE IF IsIterable(items[Min(bad)]) THEN Raise("ValueError")
        ELSE Raise("TypeError")

\* dict(v): a dict, or an iterable of two-item iterables; the first element
\* that is no iterable raises TypeError, one of another length ValueError
PyDictOf(v) ==
    CASE v.t = "dict" -> Ok(v)
      [] ~IsIterable(v) -> Raise("TypeError")
      [] OTHER -> DictOfItems(IterItems(v))

\* json.loads(v) on the JSON texts of the model: null, true, false, integer
\* literals, [] and {} (between optional white space); JSONDecodeError is a
\* ValueError
JsonText(x) ==
    CASE x = <<"n","u","l","l">> -> Ok(PyNone)
      [] x = <<"t","r","u","e">> -> Ok(PyTrue)
      [] x = <<"f","a","l","s","e">> -> Ok(PyFalse)
      [] x = <<"[", "]">> -> Ok(PyList(<<>>))
      [] x = <<"{", "}">> -> Ok(PyDict(<<>>))
      [] x # <<>> /\ (\A i \in DOMAIN x : IsDigit(x[i]))
           /\ (Len(x) = 1 \/ x[1] # "0") -> Ok(PyInt(DigitsValue(x)))
      [] x # <<>> /\ x[1] = "-" /\ Len(x) > 1
           /\ (\A i \in 2..Len(x) : IsDigit(x[i]))
           /\ (Len(x) = 2 \/ x[2] # "0") -> Ok(PyInt(0 - DigitsValue(Tail(x))))
      [] OTHER -> Raise("ValueError")

JsonLoads(v) ==
    IF v.t # "str" THEN Raise("TypeError") ELSE JsonText(Strip(v.s))

-----------------------------------------------------------------------------
(* dict: a sequence of [k |-> key, v |-> value] with distinct keys *)

Keys(d) == {d[i].k : i \in DOMAIN d}

Has(d, k) == k \in Keys(d)

\* d[k] for a key of d
Get(d, k) == d[CHOOSE i \in DOMAIN d : d[i].k = k].v

\* d.get(k)
GetOrNone(d, k) == IF Has(d, k) THEN Get(d, k) ELSE PyNone

\* d[k] = v: in place for a key of d, appended otherwise
Set(d, k, v) ==
    IF Has(d, k) THEN [i \in DOMAIN d |-> IF d[i].k = k THEN [k |-> k, v |-> v] ELSE d[i]]
    ELSE Append(d, [k |-> k, v |-> v])

\* d without key k (d.pop(k) returns Get(d, k))
Remove(d, k) == SelectIdx(d, {i \in DOMAIN d : d[i].k # k}, 1)

\* d.update(e)
RECURSIVE Update(_, _)
Update(d, e) ==
    IF e = <<>> THEN d ELSE Update(Set(d, e[1].k, e[1].v), Tail(e))

\* a dict as a Python value
DictValue(d) == PyDict([i \in DOMAIN d |-> PyList(<<PyStr(d[i].k), d[i].v>>)])

-----------------------------------------------------------------------------
(* Names *)

s_str     == <<"s","t","r">>
s_string  == <<"s","t","r","i","n","g">>
s_int     == <<"i","n","t">>
s_integer == <<"i","n","t","e","g","e","r">>
s_float   == <<"f","l","o","a","t">>
s_number  == <<"n","u","m","b","e","r">>
s_bool    == <<"b","o","o","l">>
s_boolean == <<"b","o","o","l","e","a","n">>
s_object  == <<"o","b","j","e","c","t">>
s_list    == <<"l","i","s","t">>
s_array   == <<"a","r","r","a","y">>
s_dict    == <<"d","i","c","t">>
s_in      == <<"i","n">>
s_between == <<"b","e","t","w","e","e","n">>
s_operators == <<"o","p","e","r","a","t","o","r","s">>
s_gt      == <<"g","t">>
s_lt      == <<"l","t">>
s_name    == <<"n","a","m","e">>
s_datatype == <<"d","a","t","a","t","y","p","e">>
s_description == <<"d","e","s","c","r","i","p","t","i","o","n">>
s_location == <<"l","o","c","a","t","i","o","n">>
s_enum    == <<"e","n","u","m">>
s_required == <<"r","e","q","u","i","r","e","d">>
s_optional == <<"o","p","t","i","o","n","a","l">>
s_default == <<"d","e","f","a","u","l","t">>
s_min     == <<"m","i","n">>
s_max     == <<"m","a","x">>
s_query   == <<"q","u","e","r","y">>
s_param   == <<":","p","a","r","a","m">>

-----------------------------------------------------------------------------
(* reliqua/middleware.py *)

truthy == {<<"t","r","u","e">>, <<"y","e","s">>, <<"1">>, <<"o","n">>, <<"t">>, <<"y">>}

falsy == {<<"f","a","l","s","e">>, <<"n","o">>, <<"0">>, <<"o","f","f">>, <<"f">>, <<"n">>, <<>>}

\* to_bool without the strip() of its argument
to_bool_NoStrip(value) ==
    With(Lower(StrText(value)),
         LAMBDA val : IF val \in truthy THEN TRUE
                      ELSE IF val \in falsy THEN FALSE
                      ELSE Truthy(value))

\* to_bool(value)
to_bool(value) ==
    With(Lower(Strip(StrText(value))),
         LAMBDA val : IF val \in truthy THEN TRUE
                      ELSE IF val \in falsy THEN FALSE
                      ELSE Truthy(value))

\* TRANSFORMS.get(name, str): the conversion function, by its name
TRANSFORMS(name) ==
    CASE name \in {s_string, s_str}   -> "str"
      [] name \in {s_number, s_float} -> "float"
      [] name \in {s_integer, s_int}  -> "int"
      [] name \in {s_boolean, s_bool} -> "to_bool"
      [] name = s_object              -> "json.loads"
      [] name \in {s_list, s_array}   -> "list"
      [] name = s_dict                -> "dict"
      [] OTHER                        -> "str"

\* transform(v) for a function TRANSFORMS returned
Apply(fn, v) ==
    CASE fn = "str"        -> PyStrOf(v)
      [] fn = "float"      -> PyFloatOf(v)
      [] fn = "int"        -> PyIntOf(v)
      [] fn = "to_bool"    -> Ok(PyBool(to_bool(v)))
      [] fn = "json.loads" -> JsonLoads(v)
      [] fn = "list"       -> PyListOf(v)
      [] OTHER             -> PyDictOf(v)

\* python_type(s) = getattr(builtins, s, None): the builtin types the model
\* knows by name; "None" stands for None and for a builtin that is no type,
\* which isinstance rejects alike
python_type(name) ==
    CASE name = s_str    -> "str"
      [] name = s_int    -> "int"
      [] name = s_float  -> "float"
      [] name = s_bool   -> "bool"
      [] name = s_list   -> "list"
      [] name = s_dict   -> "dict"
      [] name = s_object -> "object"
      [] OTHER           -> "None"

\* isinstance(v, tp) for a type tp (bool is a subclass of int)
IsInstance(v, tp) ==
    \/ tp = "object"
    \/ v.t = tp
    \/ tp = "int" /\ v.t = "bool"

-----------------------------------------------------------------------------
(* falcon.Request getters, as Converter calls them on request.params *)

TRUE_STRINGS == {<<"t","r","u","e">>, <<"T","r","u","e">>, <<"t">>, <<"y","e","s">>,
                 <<"y">>, <<"1">>, <<"o","n">>}

FALSE_STRINGS == {<<"f","a","l","s","e">>, <<"F","a","l","s","e">>, <<"f">>, <<"n","o">>,
                  <<"n">>, <<"0">>, <<"o","f","f">>}

\* the stored value of a present key: the last item of a list value
\* (val = val[-1], an IndexError on the empty list)
LastOf(v) ==
    IF v.t # "list" THEN Ok(v)
    ELSE IF v.l = <<>> THEN Raise("IndexError")
    ELSE Ok(v.l[Len(v.l)])

\* req.get_param(name, required=required, default=default)
get_param(d, name, required, default) ==
    IF Has(d, name) THEN LastOf(Get(d, name))
    ELSE IF ~required THEN Ok(default)
    ELSE Raise("HTTPMissingParam")

\* `except ValueError: raise HTTPInvalidParam` around a conversion
InvalidParam(r) ==
    IF r.exc = "ValueError" THEN Raise("HTTPInvalidParam") ELSE r

\* req.get_param_as_int / req.get_param_as_float: conv is int or float
get_param_as_number(d, name, required, default, conv) ==
    IF Has(d, name)
    THEN LET val == LastOf(Get(d, name))
         IN  IF val.exc # "none" THEN val
             ELSE InvalidParam(Apply(conv, val.val))
    ELSE IF ~required THEN Ok(default)
    ELSE Raise("HTTPMissingParam")

get_param_as_int(d, name, required, default) ==
    get_param_as_number(d, name, required, default, "int")

get_param_as_float(d, name, required, default) ==
    get_param_as_number(d, name, required, default, "float")

\* req.get_param_as_bool(name, default=default, required=required), with
\* falcon's blank_as_true=True
get_param_as_bool(d, name, required, default) ==
    IF Has(d, name)
    THEN LET val == LastOf(Get(d, name))
         IN  IF val.exc # "none" THEN val
             ELSE IF val.val.t \in {"list", "dict"} THEN Raise("TypeError")
             ELSE IF val.val.t = "str" /\ val.val.s \in TRUE_STRINGS THEN Ok(PyTrue)
             ELSE IF val.val.t = "str" /\ val.val.s \in FALSE_STRINGS THEN Ok(PyFalse)
             ELSE IF ~Truthy(val.val) THEN Ok(PyTrue)
             ELSE Raise("HTTPInvalidParam")
    ELSE IF ~required THEN Ok(default)
    ELSE Raise("HTTPMissingParam")

\* [transform(i) for i in items]: the first item that raises decides
MapCons(head, rest) ==
    IF head.exc # "none" THEN head
    ELSE IF rest.exc # "none" THEN rest
    ELSE Ok(PyList(<<head.val>> \o rest.val.l))

RECURSIVE MapItems(_, _)
MapItems(fn, items) ==
    IF items = <<>> THEN Ok(PyList(<<>>))
    ELSE MapCons(Apply(fn, items[1]), MapItems(fn, Tail(items)))

\* req.get_param_as_list(name, default=default, required=required,
\* transform=transform)
get_param_as_list(d, name, required, default, transform) ==
    IF Has(d, name)
    THEN LET v == Get(d, name)
         IN  InvalidParam(MapItems(transform, IF v.t = "list" THEN v.l ELSE <<v>>))
    ELSE IF ~required THEN Ok(default)
    ELSE Raise("HTTPMissingParam")

\* req.get_param_as_json(name, default=default, required=required)
get_param_as_json(d, name, required, default) ==
    LET v == get_param(d, name, required, PyNone)
    IN  IF v.exc # "none" THEN v
        ELSE IF v.val.t = "NoneType" THEN Ok(default)
        ELSE IF v.val.t # "str" THEN Raise("AttributeError")
        ELSE InvalidParam(JsonLoads(v.val))

-----------------------------------------------------------------------------
(* Converter *)

\* what a converter leaves: its result and request.params
Res(r, d) == [exc |-> r.exc, val |-> r.val, params |-> d]

\* Converter.as_str
as_str(d, name, default, required) ==
    Res(get_param(d, name, required, default), d)

\* default = conv(default) if default else None, of as_int and as_float
NumberDefault(default, conv) ==
    IF Truthy(default) THEN Apply(conv, default) ELSE Ok(PyNone)

\* Converter.as_float
as_float(d, name, default, required) ==
    With(NumberDefault(default, "float"),
         LAMBDA dflt : IF dflt.exc # "none" THEN Res(dflt, d)
                       ELSE Res(get_param_as_float(d, name, required, dflt.val), d))

\* Converter.as_int
as_int(d, name, default, required) ==
    With(NumberDefault(default, "int"),
         LAMBDA dflt : IF dflt.exc # "none" THEN Res(dflt, d)
                       ELSE Res(get_param_as_int(d, name, required, dflt.val), d))

\* Converter.as_bool
as_bool(d, name, default, required) ==
    Res(get_param_as_bool(d, name, required, default), d)

\* Converter.as_object
as_object(d, name, default, required) ==
    IF ~Has(d, name) THEN Res(Raise("KeyError"), d)
    ELSE IF Get(d, name).t = "dict" THEN Res(Ok(Get(d, name)), d)
    ELSE Res(get_param_as_json(d, name, required, default), d)

\* [item for item in items if item != ""]
DropEmpty(items) ==
    SelectIdx(items, {i \in DOMAIN items : ~PyEq(items[i], PyStr(<<>>))}, 1)

\* [x.strip() for x in value] as a list of str
StripAll(value) == PyList([i \in DOMAIN value |-> PyStr(Strip(value[i]))])

\* the head of as_list: a non-empty text under `name` is replaced in
\* request.params by the list of its stripped comma-separated pieces
SplitParam(d, name) ==
    LET v == Get(d, name)
    IN  IF v.t = "str" /\ v.s # <<>>
        THEN Set(d, name, StripAll(Split(StripSet(v.s, {"'", "\""}), ",")))
        ELSE d

\* the tail of as_list: the items get_param_as_list returned, without the
\* empty texts (a default that is no list cannot be iterated)
NonEmptyItems(items, d) ==
    IF items.exc # "none" THEN Res(items, d)
    ELSE IF items.val.t # "list" THEN Res(Raise("TypeError"), d)
    ELSE Res(Ok(PyList(DropEmpty(items.val.l))), d)

\* Converter.as_list
as_list(d, name, default, required, transform) ==
    IF ~Has(d, name) THEN Res(Raise("KeyError"), d)
    ELSE With(SplitParam(d, name),
              LAMBDA d1 : NonEmptyItems(
                  get_param_as_list(d1, name, required, default, transform), d1))

\* Converter.as_array
as_array(d, name, default, required, transform) ==
    as_list(d, name, default, required, transform)

\* converter(req, name, default=, required=, transform=) for
\* converter = getattr(Converter, f"as_{datatype}", Converter.as_str)
CallConverter(datatype, d, name, default, required, transform) ==
    CASE datatype = s_float  -> as_float(d, name, default, required)
      [] datatype = s_int    -> as_int(d, name, default, required)
      [] datatype = s_bool   -> as_bool(d, name, default, required)
      [] datatype = s_object -> as_object(d, name, default, required)
      [] datatype = s_list   -> as_list(d, name, default, required, transform)
      [] datatype = s_array  -> as_array(d, name, default, required, transform)
      [] OTHER               -> as_str(d, name, default, required)

\* Converter.convert(req, parameter, transform); transform <<>> is None
convert(d, parameter, transform) ==
    LET tname == IF transform # <<>> THEN transform ELSE parameter.datatype
        got   == get_param(d, parameter.name, parameter.required, PyNone)
        value == IF got.exc = "IndexError" THEN PyList(<<>>) ELSE got.val
        tp    == python_type(parameter.datatype)
        fn    == TRANSFORMS(tname)
    IN  IF got.exc \notin {"none", "IndexError"} THEN Res(got, d)
        ELSE IF tp = "None" THEN Res(Raise("TypeError"), d)
        ELSE IF IsInstance(value, tp) THEN Res(Ok(value), d)
        ELSE With(IF Truthy(parameter.default) THEN Apply(fn, parameter.default)
                  ELSE Ok(PyNone),
                  LAMBDA dflt :
                      IF dflt.exc # "none" THEN Res(dflt, d)
                      ELSE CallConverter(parameter.datatype, d, parameter.name,
                                         dflt.val, parameter.required, fn))

-----------------------------------------------------------------------------
(* ProcessParams *)

\* Parameter(**x) for a parameter dict x: name and datatype are its texts,
\* default is None and required False unless x sets them (required is a
\* bool in every dict the parser makes), other keys are ignored
Parameter(x) ==
    [name     |-> Get(x, s_name).s,
     datatype |-> Get(x, s_datatype).s,
     default  |-> GetOrNone(x, s_default),
     required |-> Truthy(GetOrNone(x, s_required))]

\* ProcessParams.get_resource_parameters: a fresh Parameter per dict
get_resource_parameters(resourceData) ==
    [i \in DOMAIN resourceData |-> Parameter(resourceData[i])]

\* _check_required testing the value's truth instead of `is None`
CheckRequiredRaises_Falsy(d, parameter) ==
    LET value == IF parameter.default.t # "NoneType" THEN parameter.default
                 ELSE GetOrNone(d, parameter.name)
    IN  parameter.required /\ ~Truthy(value)

\* ProcessParams._check_required: TRUE when it raises HTTPBadRequest
CheckRequiredRaises(d, parameter) ==
    LET value == IF parameter.default.t # "NoneType" THEN parameter.default
                 ELSE GetOrNone(d, parameter.name)
    IN  parameter.required /\ value.t = "NoneType"

\* the loop of ProcessParams._parse_operators over list(request.params.keys())
RECURSIVE ParseOperatorKeys(_, _, _)
ParseOperatorKeys(keys, d, ops) ==
    IF keys = <<>> THEN [params |-> d, operators |-> ops]
    ELSE LET parts    == Partition(keys[1], <<"_", "_">>)
             name     == parts[1]
             operator == parts[3]
         IN  IF operator # <<>>
             THEN ParseOperatorKeys(Tail(keys),
                                    Set(Remove(d, keys[1]), name, Get(d, keys[1])),
                                    Set(ops, name, PyStr(operator)))
             ELSE ParseOperatorKeys(Tail(keys), d, ops)

\* _parse_operators moving only the keys whose suffix is gt, lt, in or between
parse_operators_KnownOnly(d) ==
    ParseOperatorKeys(SelectSeq([i \in DOMAIN d |-> d[i].k],
                                LAMBDA k : Partition(k, <<"_", "_">>)[3]
                                               \in {s_gt, s_lt, s_in, s_between}),
                      d, <<>>)

\* _parse_operators recording the operator without renaming the key
parse_operators_KeepKey(d) ==
    [params |-> d,
     operators |-> ParseOperatorKeys([i \in DOMAIN d |-> d[i].k], d, <<>>).operators]

\* ProcessParams._parse_operators
parse_operators(d) ==
    ParseOperatorKeys([i \in DOMAIN d |-> d[i].k], d, <<>>)

\* the length of the run of \w characters of s that starts at position i
RECURSIVE WordRun(_, _)
WordRun(s, i) ==
    IF i <= Len(s) /\ IsWord(s[i]) THEN 1 + WordRun(s, i + 1) ELSE 0

\* re.search(r"list\[(\w+)]", datatype): group 1, or <<>> for no match
ListItemType(datatype) ==
    LET open == <<"l","i","s","t","[">>
        hits == {i \in Occurrences(datatype, open) :
                    LET n == WordRun(datatype, i + 5)
                    IN  /\ n > 0
                        /\ i + 5 + n <= Len(datatype)
                        /\ datatype[i + 5 + n] = "]"}
    IN  IF hits = {} THEN <<>>
        ELSE LET i == Min(hits)
             IN  SubSeq(datatype, i + 5, i + 4 + WordRun(datatype, i + 5))

\* `if operators.get(parameter.name) in ["in", "between"]`: the datatype
\* becomes "list" unless it mentions list
ForceList(parameter, op) ==
    IF /\ op.t = "str" /\ op.s \in {s_in, s_between}
       /\ ~Contains(parameter.datatype, s_list)
    THEN [parameter EXCEPT !.datatype = s_list]
    ELSE parameter

\* request.params[parameter.name] = <what convert returned or raised>
StoreConverted(r, parameter) ==
    IF r.exc # "none"
    THEN [exc |-> r.exc, params |-> r.params, parameter |-> parameter]
    ELSE [exc |-> "none", params |-> Set(r.params, parameter.name, r.val),
          parameter |-> parameter]

\* `if m := re.search(r"list\[(\w+)]", parameter.datatype)` and the call of
\* Converter.convert: item is group 1, or <<>> for no match
ConvertTyped(d, parameter, item) ==
    With(IF item # <<>> THEN [parameter EXCEPT !.datatype = s_list] ELSE parameter,
         LAMBDA final : StoreConverted(convert(d, final, item), final))

\* the loop body passing over a missing required parameter instead of raising
ProcessOne_SkipMissing(d, ops, parameter) ==
    IF CheckRequiredRaises(d, parameter) \/ (~Has(d, parameter.name) /\ ~Truthy(parameter.default))
    THEN [exc |-> "none", params |-> d, parameter |-> parameter]
    ELSE With(ForceList(parameter, GetOrNone(ops, parameter.name)),
              LAMBDA forced : ConvertTyped(d, forced, ListItemType(forced.datatype)))

\* one turn of the for loop of ProcessParams.process for `parameter`:
\* the exception it raises, request.params and the parameter after it
ProcessOne(d, ops, parameter) ==
    IF CheckRequiredRaises(d, parameter)
    THEN [exc |-> "HTTPBadRequest", params |-> d, parameter |-> parameter]
    ELSE IF ~Has(d, parameter.name) /\ ~Truthy(parameter.default)
    THEN [exc |-> "none", params |-> d, parameter |-> parameter]
    ELSE With(ForceList(parameter, GetOrNone(ops, parameter.name)),
              LAMBDA forced : ConvertTyped(d, forced, ListItemType(forced.datatype)))

\* ProcessParams.process_form: text/plain parts give their text,
\* application/json parts their media, other parts nothing
RECURSIVE process_form(_)
process_form(form) ==
    IF form = <<>> THEN <<>>
    ELSE LET part == form[Len(form)]
             rest == process_form(SubSeq(form, 1, Len(form) - 1))
         IN  IF part.content_type \in {"text/plain", "application/json"}
             THEN Set(rest, part.name, part.v)
             ELSE rest

\* the merge with the path captures applied after the body
Merged_CapturesLast(q, caps, body) ==
    CASE body.kind = "dict" -> Update(Update(q, body.d), caps)
      [] body.kind = "form" -> Update(Update(q, process_form(body.parts)), caps)
      [] OTHER              -> Update(q, caps)

\* the merge with the query string applied last
Merged_QueryLast(q, caps, body) ==
    CASE body.kind = "dict" -> Update(Update(body.d, caps), q)
      [] body.kind = "form" -> Update(Update(process_form(body.parts), caps), q)
      [] OTHER              -> Update(caps, q)

\* the merge of ProcessParams.process_resource: request.params updated with
\* the path captures, then with the body (a dict or a multipart form)
Merged(q, caps, body) ==
    LET withCaps == Update(q, caps)
    IN  CASE body.kind = "dict" -> Update(withCaps, body.d)
          [] body.kind = "form" -> Update(withCaps, process_form(body.parts))
          [] OTHER              -> withCaps

-----------------------------------------------------------------------------
(* reliqua/sphinx_parser.py *)

\* str.lstrip()
LStrip(s) ==
    LET keep == {i \in DOMAIN s : ~IsSpace(s[i])}
    IN  IF keep = {} THEN <<>> ELSE SubSeq(s, Min(keep), Len(s))

\* cleandoc: the least indentation of the non-blank lines behind the first
\* (0 stands for sys.maxsize: with no such line nothing is removed)
Margin(lines) ==
    LET content == {i \in 2..Len(lines) : LStrip(lines[i]) # <<>>}
    IN  IF content = {} THEN 0
        ELSE Min({Len(lines[i]) - Len(LStrip(lines[i])) : i \in content})

\* cleandoc: the first line without its leading white space, the others
\* without the margin
Dedent(lines, margin) ==
    [i \in DOMAIN lines |->
        IF i = 1 THEN LStrip(lines[1]) ELSE Slice(lines[i], margin + 1, Len(lines[i]))]

\* cleandoc: without the empty lines at either end
TrimBlank(lines) ==
    LET full == {i \in DOMAIN lines : lines[i] # <<>>}
    IN  IF full = {} THEN <<>> ELSE SubSeq(lines, Min(full), Max(full))

\* inspect.cleandoc(doc) for text without tabs
cleandoc(d) ==
    With(Split(d, "\n"),
         LAMBDA lines : Join(TrimBlank(Dedent(lines, Margin(lines))), <<"\n">>))

\* a list of lines without its last item when that is empty
DropLastEmpty(parts) ==
    IF parts[Len(parts)] = <<>> THEN SubSeq(parts, 1, Len(parts) - 1) ELSE parts

\* str.splitlines() for text whose only line boundary is "\n"
splitlines(s) == DropLastEmpty(Split(s, "\n"))

\* the length of the run of positions of `ok` that starts at position i
RunLen(s, i, ok) ==
    LET stops == {j \in i..Len(s) : j \notin ok}
    IN  IF stops = {} THEN Max({0, Len(s) - i + 1}) ELSE Min(stops) - i

\* positions matching \s, \w, [\[\]|\w] and [\S+]
SpaceAt(s) == {i \in DOMAIN s : IsSpace(s[i])}
WordAt(s)  == {i \in DOMAIN s : IsWord(s[i])}
TypeAt(s)  == {i \in DOMAIN s : IsWord(s[i]) \/ s[i] \in {"[", "]", "|"}}
TokenAt(s) == {i \in DOMAIN s : ~IsSpace(s[i])}

\* the look-aheads that end a match of PARAM_ITER_REGEX
Markers ==
    {s_param, <<":","r","e","t","u","r","n">>, <<":","r","e","s","p","o","n","s","e">>,
     <<":","a","c","c","e","p","t","s">>}

\* the least member of a set of positions, or 0 for the empty set
First(S) == IF S = {} THEN 0 ELSE Min(S)

\* PARAM_ITER_REGEX from its first colon on: `.*?` runs to the nearest
\* marker behind the colon at position j (DOTALL: across lines); the position
\* after the match, or 0 for no match
ParamIterTail(s, j) ==
    IF j = 0 THEN 0
    ELSE First({e \in (j + 1)..Len(s) : \E m \in Markers : StartsAt(s, m, e)})

\* PARAM_ITER_REGEX matched at position i: the position after the match, or
\* 0 for no match.  ^ is a line start and `.*?:` runs to the first colon
\* behind ":param".
ParamIterEnd(s, i) ==
    IF ~(StartsAt(s, s_param, i) /\ (i = 1 \/ s[i - 1] = "\n")) THEN 0
    ELSE ParamIterTail(s, First({j \in (i + 6)..Len(s) : s[j] = ":"}))

\* group 1 of the match of PARAM_ITER_REGEX from i to e, and the matches
\* behind it
RECURSIVE ParamIter(_, _)
ParamIterFrom(s, i, e) == <<Slice(s, i, e - 1)>> \o ParamIter(s, e)

\* PARAM_ITER_REGEX.finditer(s) from position pos: group 1 of each match
ParamIter(s, pos) ==
    With(First({i \in pos..Len(s) : ParamIterEnd(s, i) # 0}),
         LAMBDA i : IF i = 0 THEN <<>> ELSE ParamIterFrom(s, i, ParamIterEnd(s, i)))

\* the match of KEYVALUE_REGEX whose key starts at i and ends before k: the
\* value is the run of \w behind the "=" at k; then the matches behind it
RECURSIVE KeyValuesIn(_, _, _)
KeyValueAt(s, word, i, k, n) ==
    <<[k |-> Slice(s, i, k - 1), v |-> PyStr(Slice(s, k + 1, k + n))]>>
    \o KeyValuesIn(s, word, k + 1 + n)

\* KEYVALUE_REGEX.finditer(s) from position pos, `word` being the positions
\* of \w: a key is a whole run of \w followed by "=" and by \w
KeyValuesIn(s, word, pos) ==
    With(First({i \in pos..Len(s) :
                   /\ i \in word
                   /\ With(i + RunLen(s, i, word),
                           LAMBDA k : k < Len(s) /\ s[k] = "=" /\ (k + 1) \in word)}),
         LAMBDA i :
             IF i = 0 THEN <<>>
             ELSE With(i + RunLen(s, i, word),
                       LAMBDA k : KeyValueAt(s, word, i, k, RunLen(s, k + 1, word))))

\* KEYVALUE_REGEX.finditer(s)
KeyValues(s) == KeyValuesIn(s, WordAt(s), 1)

\* parse_options after the loop: options.pop("in") and the required flag
RenameIn(options, required) ==
    IF ~Has(options, s_in) THEN [exc |-> "KeyError", d |-> <<>>]
    ELSE [exc |-> "none",
          d   |-> Set(Set(Remove(options, s_in), s_location, Get(options, s_in)),
                      s_required, PyBool(required))]

\* SphinxParser.parse_options: the options dict, or the KeyError of
\* options.pop("in")
parse_options(string) ==
    RenameIn(Update(<<[k |-> s_location, v |-> PyStr(s_query)],
                      [k |-> s_enum,     v |-> PyList(<<>>)],
                      [k |-> s_required, v |-> PyFalse],
                      [k |-> s_default,  v |-> PyNone],
                      [k |-> s_min,      v |-> PyNone],
                      [k |-> s_max,      v |-> PyNone]>>,
                    KeyValues(string)),
             Contains(string, s_required) /\ ~Contains(string, s_optional))

NoMatch == [ok |-> FALSE, datatype |-> <<>>, name |-> <<>>, options |-> PyNone,
            description |-> <<>>]

\* PARAM_REGEX matched from position i on.  Every piece but the tail has one
\* way to match: runs of white space are whole, the datatype is a whole run
\* of [\[\]|\w], the name is a token that ends in the colon.

\* the tail `(\[(.*)\])?\s+(.*)` with the bracket group closed at r
ParamOptions(s, sp, datatype, name, q, r) ==
    [ok |-> TRUE, datatype |-> datatype, name |-> name,
     options |-> PyStr(Slice(s, q + 1, r - 1)),
     description |-> Slice(s, r + 1 + RunLen(s, r + 1, sp), Len(s))]

\* the tail `:\s+(\[(.*)\])?\s+(.*)` behind w white space that ends before
\* q: it takes the bracket group when the text opens with "[" and some "]"
\* is followed by white space (the last such "]" closes the group); failing
\* that it gives one space of `:\s+` back to the second \s+, which takes two
\* spaces behind the colon
ParamTail(s, sp, datatype, name, w, q) ==
    With(IF q <= Len(s) /\ s[q] = "["
         THEN {r \in (q + 1)..(Len(s) - 1) : s[r] = "]" /\ (r + 1) \in sp}
         ELSE {},
         LAMBDA closes :
             IF closes # {} THEN ParamOptions(s, sp, datatype, name, q, Max(closes))
             ELSE IF w >= 2
             THEN [ok |-> TRUE, datatype |-> datatype, name |-> name,
                   options |-> PyNone, description |-> Slice(s, q, Len(s))]
             ELSE NoMatch)

\* `:\s+`: the colon is the last character of the token that ends before p
ParamColon(s, sp, datatype, n0, p, w) ==
    IF p - n0 > 1 /\ s[p - 1] = ":" /\ w > 0
    THEN ParamTail(s, sp, datatype, SubSeq(s, n0, p - 2), w, p + w)
    ELSE NoMatch

\* `(?P<name>[\S+]+)`: the token that starts at n0
ParamName(s, sp, datatype, n0) ==
    With(n0 + RunLen(s, n0, TokenAt(s)),
         LAMBDA p : ParamColon(s, sp, datatype, n0, p, RunLen(s, p, sp)))

\* `(?P<datatype>[\[\]|\w]+)\s+`: the run that starts at t0 and ends before
\* t1, followed by w white space
ParamType(s, sp, t0, t1, w) ==
    IF t1 > t0 /\ w > 0 THEN ParamName(s, sp, SubSeq(s, t0, t1 - 1), t1 + w)
    ELSE NoMatch

\* `:param\s+` matched up to t0
ParamHead(s, sp, t0) ==
    With(t0 + RunLen(s, t0, TypeAt(s)),
         LAMBDA t1 : ParamType(s, sp, t0, t1, RunLen(s, t1, sp)))

\* PARAM_REGEX matched at position i
ParamMatchAt(s, i) ==
    With(SpaceAt(s),
         LAMBDA sp : IF StartsAt(s, s_param, i) /\ RunLen(s, i + 6, sp) > 0
                     THEN ParamHead(s, sp, i + 6 + RunLen(s, i + 6, sp))
                     ELSE NoMatch)

\* PARAM_REGEX.search(s): the match at the first position that has one
ParamSearch(s) ==
    With(First({i \in DOMAIN s : ParamMatchAt(s, i).ok}),
         LAMBDA i : IF i = 0 THEN NoMatch ELSE ParamMatchAt(s, i))

\* the end of parse_parameter: required defaults to False and the
\* description is stripped
Described(parameter) ==
    With(IF ~Truthy(GetOrNone(parameter, s_required))
         THEN Set(parameter, s_required, PyFalse) ELSE parameter,
         LAMBDA x : [exc |-> "none", none |-> FALSE,
                     d |-> Set(x, s_description, PyStr(Strip(Get(x, s_description).s)))])

\* parameter.update(self.parse_options(options))
WithOptions(parameter, options) ==
    IF options.exc # "none" THEN [exc |-> options.exc, none |-> TRUE, d |-> <<>>]
    ELSE Described(Update(parameter, options.d))

\* match.groupdict() without "options"
GroupDict(m) ==
    <<[k |-> s_datatype,    v |-> PyStr(m.datatype)],
      [k |-> s_name,        v |-> PyStr(m.name)],
      [k |-> s_description, v |-> PyStr(m.description)]>>

\* parse_parameter for the match m of PARAM_REGEX
ParameterOf(m) ==
    IF ~m.ok THEN [exc |-> "none", none |-> TRUE, d |-> <<>>]
    ELSE IF Truthy(m.options) THEN WithOptions(GroupDict(m), parse_options(m.options.s))
    ELSE Described(GroupDict(m))

\* SphinxParser.parse_parameter: d is the parameter dict, none |-> TRUE
\* stands for the None of a line PARAM_REGEX does not match
parse_parameter(string) == ParameterOf(ParamSearch(string))

\* _parameters.append(parameter) for the item in hand, then the other items
ParseCons(r, rest) ==
    IF r.exc # "none" THEN [exc |-> r.exc, l |-> <<>>]
    ELSE IF rest.exc # "none" THEN rest
    ELSE [exc |-> "none", l |-> (IF r.none THEN <<>> ELSE <<r.d>>) \o rest.l]

\* " ".join([x.strip() for x in lines])
JoinStripped(lines) == Join([i \in DOMAIN lines |-> Strip(lines[i])], <<" ">>)

\* the loop of SphinxParser.parameters over the items of PARAM_ITER_REGEX
RECURSIVE ParseItems(_)
ParseItems(items) ==
    IF items = <<>> THEN [exc |-> "none", l |-> <<>>]
    ELSE ParseCons(parse_parameter(JoinStripped(splitlines(items[1]))),
                   ParseItems(Tail(items)))

\* SphinxParser.parameters for self.doc = d
parameters(d) == ParseItems(ParamIter(d, 1))

-----------------------------------------------------------------------------
(* Bounds and inputs *)

\* the longest parameter list of a handler
MaxParams == 2

\* the widest white-space padding of a to_bool argument
MaxPad == 1

Names == << <<"a">>, <<"b">>, <<"c">>, <<"d">> >>

n_a == Names[1]
n_b == Names[2]

\* the key name__op
OpKey(name, op) == name \o <<"_", "_">> \o op

Entry(k, v) == [k |-> k, v |-> v]

\* a parameter dict of resource.__data__, with the keys Parameter reads
Descriptor(name, datatype, default, required) ==
    <<Entry(s_datatype, PyStr(datatype)), Entry(s_name, PyStr(name)),
      Entry(s_required, PyBool(required)), Entry(s_default, default)>>

ListOf(t) == s_list \o <<"[">> \o t \o <<"]">>

\* declared types: the Python names the examples use, typed lists, and one
\* OpenAPI name
DataTypes ==
    {s_str, s_int, s_float, s_bool, s_list, s_dict, s_object, s_string,
     ListOf(s_int), ListOf(s_str), ListOf(s_float), ListOf(s_bool)}

\* declared defaults: none, or a text KEYVALUE_REGEX can capture
Defaults == {PyNone, PyStr(<<"0">>), PyStr(<<"5">>), PyStr(<<"x">>)}

FreeParams(name) ==
    {Descriptor(name, dt, df, rq) : dt \in DataTypes, df \in Defaults, rq \in BOOLEAN}

CoreShapes ==
    {[datatype |-> s_int, default |-> PyNone, required |-> TRUE],
     [datatype |-> s_str, default |-> PyStr(<<"x">>), required |-> FALSE],
     [datatype |-> ListOf(s_int), default |-> PyNone, required |-> FALSE]}

CoreParams(name) ==
    {Descriptor(name, f.datatype, f.default, f.required) : f \in CoreShapes}

\* resource.__data__ parameter lists: none (an undocumented handler), one
\* parameter of any shape, or up to MaxParams parameters of the core shapes
Schemas ==
    {<<>>}
    \cup {<<p>> : p \in FreeParams(n_a)}
    \cup {<<p>> : p \in CoreParams(OpKey(n_a, s_gt))}
    \cup UNION {{[i \in 1..n |-> Descriptor(Names[i], f[i].datatype, f[i].default, f[i].required)] :
                    f \in [1..n -> CoreShapes]} : n \in 2..MaxParams}

\* query-string values are text
QueryTexts ==
    {<<>>, <<"2","5">>, <<"x">>, <<"{","}">>,
     <<"1",",","2",",",",","3">>, <<" ","1"," ",","," ","2"," ">>,
     <<"a",","," ","b",","," ","c">>, <<"t","r","u","e",",",",","n","o">>}

\* body values are whatever the JSON body holds
MediaValues ==
    {PyInt(0), PyFalse, PyStr(<<>>), PyList(<<>>), PyDict(<<>>), PyNone,
     PyList(<<PyStr(<<"1">>), PyStr(<<"2">>)>>),
     PyDict(<<PyList(<<PyStr(<<"k">>), PyInt(1)>>)>>),
     PyStr(<<"{","}">>)}

NoMedia == [kind |-> "none", d |-> <<>>, parts |-> <<>>]
DictMedia(d) == [kind |-> "dict", d |-> d, parts |-> <<>>]

\* a multipart form: its parts, each with a name, a content type and the
\* value the part gives (its text, or its decoded media)
FormMedia(parts) == [kind |-> "form", d |-> <<>>, parts |-> parts]
Part(name, content_type, v) == [name |-> name, content_type |-> content_type, v |-> v]

Request(q, c, m) == [query |-> q, captures |-> c, media |-> m]

QueryKeys == {n_a, OpKey(n_a, s_gt), OpKey(n_a, s_in), OpKey(n_a, s_between)}

Requests ==
    {Request(<<>>, <<>>, NoMedia)}
    \cup {Request(<<Entry(k, PyStr(v))>>, <<>>, NoMedia) : k \in QueryKeys, v \in QueryTexts}
    \cup {Request(<<>>, <<>>, DictMedia(<<Entry(n_a, v)>>)) : v \in MediaValues}
    \cup {Request(<<>>, <<Entry(n_a, PyStr(<<"7">>))>>, NoMedia),
          Request(<<Entry(n_a, PyStr(<<"x">>))>>, <<>>, DictMedia(<<Entry(n_a, PyStr(<<"2","5">>))>>)),
          Request(<<Entry(n_a, PyStr(<<"x">>))>>, <<Entry(n_a, PyStr(<<"7">>))>>, NoMedia),
          Request(<<>>, <<Entry(n_a, PyStr(<<"7">>))>>, DictMedia(<<Entry(n_a, PyInt(0))>>)),
          Request(<<Entry(OpKey(n_a, s_gt), PyStr(<<"2","5">>)), Entry(OpKey(n_a, s_lt), PyStr(<<"3","0">>))>>,
                  <<>>, NoMedia),
          Request(<<Entry(n_a, PyStr(<<"x">>)), Entry(OpKey(n_a, s_gt), PyStr(<<"2","5">>))>>,
                  <<>>, NoMedia),
          Request(<<Entry(n_a, PyStr(<<"2","5">>)), Entry(n_b, PyStr(<<"5">>))>>, <<>>, NoMedia),
          Request(<<Entry(n_b, PyStr(<<"5">>))>>, <<>>, NoMedia)}
    \cup {Request(<<Entry(n_a, PyStr(<<"x">>)), Entry(OpKey(n_a, <<"z", "z">>), PyStr(<<"2","5">>))>>,
                   <<>>, NoMedia),
          Request(<<Entry(OpKey(n_a, <<>>), PyStr(<<"2","5">>))>>, <<>>, NoMedia),
          Request(<<Entry(OpKey(n_a, OpKey(s_gt, s_lt)), PyStr(<<"2","5">>))>>, <<>>, NoMedia),
          Request(<<Entry(OpKey(n_a, <<"_">> \o s_gt), PyStr(<<"2","5">>))>>, <<>>, NoMedia),
          Request(<<Entry(OpKey(<<>>, n_a), PyStr(<<"2","5">>))>>, <<>>, NoMedia)}
    \cup {Request(q, <<>>, FormMedia(<<Part(n_a, ct, PyStr(<<"2","5">>))>>)) :
             q \in {<<>>, <<Entry(n_a, PyStr(<<"x">>))>>},
             ct \in {"text/plain", "application/json", "image/png"}}
    \cup {Request(<<Entry(n_b, PyStr(<<"5">>))>>, <<Entry(n_a, PyStr(<<"7">>))>>,
                   FormMedia(<<Part(n_a, "text/plain", PyStr(<<"1">>)),
                               Part(n_a, "application/json", PyDict(<<>>))>>))}

n_email == <<"e","m","a","i","l">>

\* `:param <datatype> <name>:<tail>`
DocLine(datatype, name, tail) ==
    s_param \o <<" ">> \o datatype \o <<" ">> \o name \o <<":">> \o tail

\* what follows the colon of a :param line: options with and without a
\* description behind them, a description alone, one space or two, and a
\* description on a continuation line
Tails ==
    {<<" ","[","i","n","=","q","u","e","r","y"," ","d","e","f","a","u","l","t","=","a","@","b",".","c","o","m","]">>,
     <<" ","[","i","n","=","q","u","e","r","y"," ","d","e","f","a","u","l","t","=","a","@","b",".","c","o","m","]"," ","M","a","i","l">>,
     <<" "," ","[","i","n","=","q","u","e","r","y"," ","d","e","f","a","u","l","t","=","a","@","b",".","c","o","m","]">>,
     <<" ","[","i","n","=","q","u","e","r","y"," ","d","e","f","a","u","l","t","=","a","@","b",".","c","o","m","]","\n"," "," "," ","M","a","i","l">>,
     <<" ","[","i","n","=","q","u","e","r","y"," ","d","e","f","a","u","l","t","=","a","b","]"," ","M","a","i","l">>,
     <<" ","[","i","n","=","q","u","e","r","y"," ","r","e","q","u","i","r","e","d","]"," ","M","a","i","l">>,
     <<" ","[","i","n","=","q","u","e","r","y"," ","o","p","t","i","o","n","a","l"," ","d","e","f","a","u","l","t","=","5","]"," ","M","a","i","l">>,
     <<" ","[","d","e","f","a","u","l","t","=","a","b","]"," ","M","a","i","l">>,
     <<" ","M","a","i","l">>,
     <<" "," ","M","a","i","l">>}

\* the :param lines behind the first one
MoreTails ==
    {<<" ","[","i","n","=","q","u","e","r","y","]"," ","N">>, <<" "," ","N">>}

\* what follows the last :param line: the end of the docstring, a :return
\* line, or a blank line and a :return line
Endings ==
    {<<>>,
     <<" ",":","r","e","t","u","r","n"," ","j","s","o","n",":","\n">>,
     <<"\n"," ",":","r","e","t","u","r","n"," ","j","s","o","n",":","\n">>}

\* method.__doc__ as written in a handler: a summary line, a blank line,
\* the indented :param lines, the ending, and the indent of the closing quotes
Docstring(lines, ending) ==
    <<"\n"," ","S",".","\n","\n">>
    \o Join([i \in DOMAIN lines |-> <<" ">> \o lines[i] \o <<"\n">>], <<>>)
    \o ending \o <<" ">>

\* docstrings that annotate a path parameter, and one that declares `email`
\* on two :param lines
PathTails ==
    {<<" ","[","i","n","=","p","a","t","h","]"," ","M","a","i","l">>,
     <<" ","[","i","n","=","p","a","t","h"," ","o","p","t","i","o","n","a","l","]"," ","M","a","i","l">>,
     <<" ","[","i","n","=","p","a","t","h"," ","r","e","q","u","i","r","e","d","]"," ","M","a","i","l">>}

ReturnEnding == <<" ",":","r","e","t","u","r","n"," ","j","s","o","n",":","\n">>

MoreDocs ==
    {Docstring(<<DocLine(s_str, n_email, t)>>, ReturnEnding) : t \in PathTails}
    \cup {Docstring(<<DocLine(s_str, n_email, <<" "," ","M","a","i","l">>),
                      DocLine(s_int, n_email, <<" ","[","i","n","=","q","u","e","r","y","]"," ","N">>)>>,
                    ReturnEnding)}

\* docstrings with up to MaxParams :param lines; the first documents `email`
Docs ==
    {Docstring(<<>>, <<>>)}
    \cup MoreDocs
    \cup UNION {{Docstring(<<DocLine(dt, n_email, t)>>
                           \o [i \in 1..(n - 1) |-> DocLine(s_int, Names[i], more[i])], e) :
                    dt \in {s_str, s_int}, t \in Tails,
                    more \in [1..(n - 1) -> MoreTails], e \in Endings} :
                n \in 1..MaxParams}

\* requests to a handler documented by one of Docs
DocRequests ==
    {Request(<<>>, <<>>, NoMedia),
     Request(<<Entry(n_email, PyStr(<<"x">>))>>, <<>>, NoMedia),
     Request(<<Entry(n_email, PyStr(<<"7">>)), Entry(n_a, PyStr(<<"5">>))>>, <<>>, NoMedia),
     Request(<<>>, <<>>, DictMedia(<<Entry(n_email, PyStr(<<>>))>>))}

-----------------------------------------------------------------------------
(* The request pipeline: ProcessParams.process_resource, step by step *)

\* an openapi.Parameter not yet constructed, a property not yet read
Unset == [exc |-> "unset", val |-> PyNone]

\* no access control, no authenticators and no request through the
\* authentication middleware
NoControl == [kind |-> "none", routes |-> <<>>, methods |-> <<>>, default_mode |-> "",
              raise_on_undefined |-> FALSE, required |-> FALSE, allowed |-> FALSE]

NoAnswer == [required |-> Unset, authorized |-> Unset]

\* no concurrent requests, no enum attribute read
Alone ==
    /\ inflight = <<>>
    /\ attribute = <<>>
    /\ served = <<>>

NoAuth ==
    /\ Alone
    /\ control = NoControl
    /\ resource = [no_auth |-> FALSE, auth |-> <<>>]
    /\ req = [uri_template |-> <<>>, method |-> <<>>]
    /\ role = PyNone
    /\ answer = NoAnswer
    /\ authenticators = <<>>
    /\ calls = <<>>
    /\ user = PyNone
    /\ authorized = PyFalse
    /\ context = <<>>

Idle ==
    /\ NoAuth
    /\ boolArg = PyNone
    /\ boolRes = FALSE
    /\ results = <<>>
    /\ optArg = <<>>
    /\ optRes = [exc |-> "unset", d |-> <<>>]
    /\ kwargs = [location |-> PyNone, required |-> PyNone, datatype |-> PyNone]
    /\ apiParam = [location |-> PyNone, required |-> PyNone, datatype |-> PyNone]
    /\ apiView = [datatype |-> Unset, items_type |-> Unset]

Init ==
    /\ doc = <<>>
    /\ data \in Schemas
    /\ \E r \in Requests :
          /\ query = r.query
          /\ captures = r.captures
          /\ media = r.media
    /\ params = query
    /\ schema = <<>>
    /\ operators = <<>>
    /\ idx = 0
    /\ pc = "start"
    /\ exc = "none"
    /\ Idle

\* process_resource up to `if not schema: return`
MergeSources ==
    /\ pc = "start"
    /\ schema' = get_resource_parameters(data)
    /\ params' = Merged(query, captures, media)
    /\ pc' = IF data = <<>> THEN "done" ELSE "process"
    /\ UNCHANGED <<doc, data, query, captures, media, operators, idx, exc, boolArg, boolRes>>
    /\ UNCHANGED others

\* process: _parse_operators and the "operators" entry
ParseOperators ==
    /\ pc = "process"
    /\ \E r \in {parse_operators(params)} :
           /\ operators' = r.operators
           /\ params' = IF r.operators # <<>>
                        THEN Set(r.params, s_operators, DictValue(r.operators))
                        ELSE r.params
    /\ idx' = 1
    /\ pc' = "loop"
    /\ UNCHANGED <<doc, data, query, captures, media, schema, exc, boolArg, boolRes>>
    /\ UNCHANGED others

\* process: one turn of `for parameter in parameters`
ProcessParameter ==
    /\ pc = "loop"
    /\ \E r \in {ProcessOne(params, operators, schema[idx])} :
           /\ params' = r.params
           /\ schema' = [schema EXCEPT ![idx] = r.parameter]
           /\ exc' = r.exc
           /\ pc' = IF r.exc # "none" THEN "raised"
                    ELSE IF idx = Len(schema) THEN "done" ELSE "loop"
    /\ idx' = idx + 1
    /\ UNCHANGED <<doc, data, query, captures, media, operators, boolArg, boolRes>>
    /\ UNCHANGED others

Next ==
    \/ MergeSources
    \/ ParseOperators
    \/ ProcessParameter

Spec == Init /\ [][Next]_vars

-----------------------------------------------------------------------------
(* From the docstring to the request: Api._parse_methods, then a request *)

InitCompile ==
    /\ doc \in Docs
    /\ data = <<>>
    /\ \E r \in DocRequests :
          /\ query = r.query
          /\ captures = r.captures
          /\ media = r.media
    /\ params = query
    /\ schema = <<>>
    /\ operators = <<>>
    /\ idx = 0
    /\ pc = "compile"
    /\ exc = "none"
    /\ Idle

\* SphinxParser.parse as Api._parse_methods calls it when the application is
\* built: self.doc = inspect.cleandoc(method.__doc__) and the "parameters"
\* entry of the operation.  An exception of the parser ends the build.
Compile ==
    /\ pc = "compile"
    /\ \E cleaned \in {cleandoc(doc)} :
           /\ doc' = cleaned
           /\ \E r \in {parameters(cleaned)} :
                 /\ data' = r.l
                 /\ exc' = r.exc
                 /\ pc' = IF r.exc = "none" THEN "start" ELSE "raised"
    /\ UNCHANGED <<query, captures, media, params, schema, operators, idx, boolArg, boolRes>>
    /\ UNCHANGED others

NextCompile ==
    \/ Compile
    \/ MergeSources
    \/ ParseOperators
    \/ ProcessParameter

SpecCompile == InitCompile /\ [][NextCompile]_vars

-----------------------------------------------------------------------------
(* Vocabulary of the claims about ProcessParams *)

\* parameter i of the handler as its dict declares it
Declared(i) == Parameter(data[i])

\* parameter i of the handler has had its turn in the loop of process
Processed(i) == pc \in {"loop", "done", "raised"} /\ idx > i

\* the turn of parameter i raised
RaisedAt(i) == pc = "raised" /\ idx = i + 1

\* the merged request map, and that map as the loop of process first sees it
MergedMap == Merged(query, captures, media)
InputMap == parse_operators(MergedMap).params
InputOperators == parse_operators(MergedMap).operators

EmptyValues == {PyInt(0), PyFalse, PyStr(<<>>), PyList(<<>>), PyDict(<<>>)}

Scalars == {s_str, s_int, s_float, s_bool}

\* the value is an instance of the builtin type the declared datatype names
\* (list for list[T])
OfDeclaredType(v, datatype) ==
    LET base == IF ListItemType(datatype) # <<>> THEN s_list ELSE datatype
    IN  python_type(base) # "None" /\ IsInstance(v, python_type(base))

\* the trimmed, non-empty comma-separated items of a text
CsvItems(text) ==
    LET parts == Split(text, ",")
    IN  SelectIdx([i \in DOMAIN parts |-> Strip(parts[i])],
                  {i \in DOMAIN parts : Strip(parts[i]) # <<>>}, 1)

\* what a lone plain key name=v resolves to for descriptor p
PlainResult(p, v) == ProcessOne(<<Entry(p.name, v)>>, <<>>, p)

\* the keys of the merged map that carry an operator suffix for `name`
SuffixedKeys(name) ==
    {k \in Keys(MergedMap) :
        Partition(k, <<"_", "_">>)[1] = name /\ Partition(k, <<"_", "_">>)[3] # <<>>}

\* the request gives `name` under its own key, a key without operator suffix,
\* and under no suffixed key
PlainKey(name) ==
    /\ Has(MergedMap, name)
    /\ Partition(name, <<"_", "_">>)[3] = <<>>
    /\ SuffixedKeys(name) = {}

-----------------------------------------------------------------------------
(* C1 *)

-----------------------------------------------------------------------------
(* C2 *)

\* C2: a required parameter that declares a default and is absent from the
\* request raises nothing, and resolves to its default coerced to the declared
\* type.
C2_RequiredWithDefault ==
    \A i \in DOMAIN data :
        LET p == Declared(i)
            coerced == Apply(TRANSFORMS(p.datatype), p.default)
        IN  (Processed(i) /\ p.required /\ p.default # PyNone /\ ~Has(InputMap, p.name)) =>
              /\ ~RaisedAt(i)
              /\ Has(params, p.name)
              /\ (p.datatype \in Scalars /\ coerced.exc = "none") =>
                    Get(params, p.name) = coerced.val

-----------------------------------------------------------------------------
(* C3 *)

\* C3: a list[T] parameter (T int, float, str or bool) given a comma-separated
\* text resolves, without error, to the text's trimmed non-empty items, each
\* coerced to T.
C3_TypedListFromCsv ==
    \A i \in DOMAIN data :
        LET p     == Declared(i)
            T     == ListItemType(p.datatype)
            raw   == Get(InputMap, p.name)
            items == CsvItems(raw.s)
            want  == [k \in DOMAIN items |-> Apply(TRANSFORMS(T), PyStr(items[k]))]
        IN  (/\ Processed(i)
             /\ T \in Scalars /\ p.datatype = ListOf(T)
             /\ Has(InputMap, p.name) /\ raw.t = "str" /\ Contains(raw.s, <<",">>)
             /\ \A k \in DOMAIN want : want[k].exc = "none") =>
              /\ ~RaisedAt(i)
              /\ Get(params, p.name) = PyList([k \in DOMAIN want |-> want[k].val])

-----------------------------------------------------------------------------
(* C4 *)

-----------------------------------------------------------------------------
(* C5 *)

\* C5: for a parameter of scalar type, a key p__in or p__between makes p
\* resolve to the list of the trimmed, non-empty comma-separated items of the
\* raw text.
C5_InBetweenForceList ==
    \A i \in DOMAIN data :
        LET p   == Declared(i)
            raw == Get(InputMap, p.name)
            op  == GetOrNone(InputOperators, p.name)
        IN  (/\ Processed(i)
             /\ p.datatype \in Scalars
             /\ op.t = "str" /\ op.s \in {s_in, s_between}
             /\ raw.t = "str" /\ raw.s # <<>>) =>
              /\ ~RaisedAt(i)
              /\ Get(params, p.name) =
                    PyList([k \in DOMAIN CsvItems(raw.s) |-> PyStr(CsvItems(raw.s)[k])])

-----------------------------------------------------------------------------
(* C6 *)

\* the annotation of the claim, as a line of the cleaned docstring
C6_Annotation ==
    <<":","p","a","r","a","m"," ","s","t","r"," ","e","m","a","i","l",":"," ",
      "[","i","n","=","q","u","e","r","y"," ","d","e","f","a","u","l","t","=",
      "a","@","b",".","c","o","m","]">>

\* C6: compiling the annotation `:param str email: [in=query default=a@b.com]`
\* and resolving a request that has no email key yields email = "a@b.com":
\* there is a parameter dict for the line, its default is the whole text
\* a@b.com, and the request ends without an error with that text under email.
C6_DefaultKept ==
    (/\ pc \in {"done", "raised"}
     /\ \E i \in DOMAIN Split(doc, "\n") : Split(doc, "\n")[i] = C6_Annotation
     /\ ~Has(MergedMap, n_email))
    => /\ pc = "done"
       /\ \E i \in DOMAIN data :
             /\ Get(data[i], s_name) = PyStr(n_email)
             /\ GetOrNone(data[i], s_default) = PyStr(<<"a","@","b",".","c","o","m">>)
       /\ Has(params, n_email)
       /\ Get(params, n_email) = PyStr(<<"a","@","b",".","c","o","m">>)

-----------------------------------------------------------------------------
(* C7 *)

\* C7: an int or float parameter whose declared default is the text of a
\* number resolves, when its key is absent, to that number: never to null,
\* and it is never dropped.  (Stated for parameters that are not required;
\* required ones with a default are C2's case.)
C7_NumericDefault ==
    \A i \in DOMAIN data :
        LET p == Declared(i)
        IN  (/\ Processed(i)
             /\ p.datatype \in {s_int, s_float} /\ ~p.required
             /\ p.default.t = "str" /\ IsIntLiteral(p.default.s)
             /\ ~Has(InputMap, p.name)) =>
              /\ ~RaisedAt(i)
              /\ Has(params, p.name)
              /\ Get(params, p.name) = Apply(TRANSFORMS(p.datatype), p.default).val

-----------------------------------------------------------------------------
(* C8 *)

\* C8: a plain list parameter given a comma-bearing text resolves to the list
\* of the text's trimmed, non-empty items, as strings.
C8_PlainListFromCsv ==
    \A i \in DOMAIN data :
        LET p   == Declared(i)
            raw == Get(InputMap, p.name)
        IN  (/\ Processed(i)
             /\ p.datatype = s_list
             /\ Has(InputMap, p.name) /\ raw.t = "str" /\ Contains(raw.s, <<",">>)) =>
              /\ ~RaisedAt(i)
              /\ Get(params, p.name) =
                    PyList([k \in DOMAIN CsvItems(raw.s) |-> PyStr(CsvItems(raw.s)[k])])

-----------------------------------------------------------------------------
(* C10 *)

\* C10: an object parameter given JSON text resolves to the value the text
\* parses to, and a value that is already a dict passes through unchanged.
C10_ObjectParsed ==
    \A i \in DOMAIN data :
        LET p   == Declared(i)
            raw == Get(InputMap, p.name)
        IN  (Processed(i) /\ p.datatype = s_object /\ Has(InputMap, p.name)) =>
              /\ (raw.t = "str" /\ JsonLoads(raw).exc = "none") =>
                    (~RaisedAt(i) /\ Get(params, p.name) = JsonLoads(raw).val)
              /\ raw.t = "dict" => (~RaisedAt(i) /\ Get(params, p.name) = raw)

-----------------------------------------------------------------------------
(* to_bool on its own: the calls to_bool(value) for text in any case, padded *)

UpperChar(c) ==
    IF c \in Range(LowerAlpha)
    THEN UpperAlpha[CHOOSE i \in DOMAIN LowerAlpha : LowerAlpha[i] = c]
    ELSE c

Upper(s) == [i \in DOMAIN s |-> UpperChar(s[i])]

Capitalize(s) == [i \in DOMAIN s |-> IF i = 1 THEN UpperChar(s[i]) ELSE s[i]]

\* n white-space characters
Pad(n) == [i \in 1..n |-> IF i % 2 = 1 THEN " " ELSE "\t"]

BoolWords ==
    truthy \cup falsy
    \cup {<<"m","a","y","b","e">>, <<"2">>, <<"x">>, <<"n","o","p","e">>, <<"0","0">>,
          <<"t","r"," ","u","e">>, <<"o","n","e">>}

BoolArgs ==
    {PyStr(Pad(l) \o w \o Pad(r)) :
        w \in UNION {{x, Upper(x), Capitalize(x)} : x \in BoolWords},
        l \in 0..MaxPad, r \in 0..MaxPad}
    \cup {PyInt(0), PyInt(1), PyList(<<PyInt(1)>>), PyNone}

InitBool ==
    /\ doc = <<>>
    /\ data = <<>>
    /\ query = <<>>
    /\ captures = <<>>
    /\ media = NoMedia
    /\ params = <<>>
    /\ schema = <<>>
    /\ operators = <<>>
    /\ idx = 0
    /\ exc = "none"
    /\ pc = "to_bool"
    /\ boolArg \in BoolArgs
    /\ boolRes = FALSE
    /\ results = <<>>
    /\ optArg = <<>>
    /\ optRes = [exc |-> "unset", d |-> <<>>]
    /\ kwargs = [location |-> PyNone, required |-> PyNone, datatype |-> PyNone]
    /\ apiParam = [location |-> PyNone, required |-> PyNone, datatype |-> PyNone]
    /\ apiView = [datatype |-> Unset, items_type |-> Unset]
    /\ NoAuth

\* the call to_bool(boolArg) returns
ToBool ==
    /\ pc = "to_bool"
    /\ boolRes' = to_bool(boolArg)
    /\ pc' = "returned"
    /\ UNCHANGED <<doc, data, query, captures, media, params, schema, operators, idx, exc, boolArg>>
    /\ UNCHANGED others

NextBool == ToBool

SpecBool == InitBool /\ [][NextBool]_vars

-----------------------------------------------------------------------------
(* C9 *)

C9_TrueWords == {<<"t","r","u","e">>, <<"y","e","s">>, <<"1">>, <<"o","n">>, <<"t">>, <<"y">>}

C9_FalseWords == {<<"f","a","l","s","e">>, <<"n","o">>, <<"0">>, <<"o","f","f">>, <<"f">>, <<"n">>, <<>>}

\* C9: to_bool of a text is true when the text, trimmed and lower-cased, is
\* one of true, yes, 1, on, t, y; false when it is one of false, no, 0, off,
\* f, n or empty; and true for every other text.
C9_ToBool ==
    (pc = "returned" /\ boolArg.t = "str") =>
        LET word == Lower(Strip(boolArg.s))
        IN  /\ word \in C9_TrueWords => boolRes
            /\ word \in C9_FalseWords => ~boolRes
            /\ word \notin C9_TrueWords \cup C9_FalseWords => boolRes

\* " False " (capitalised, padded) gives false
C9_Witness ==
    /\ pc = "returned"
    /\ boolArg = PyStr(<<" ", "F", "a", "l", "s", "e", " ">>)
    /\ boolRes = FALSE


-----------------------------------------------------------------------------
(* reliqua/openapi.py: Parameter *)

s_path == <<"p","a","t","h">>
s_body == <<"b","o","d","y">>
s_form == <<"f","o","r","m">>
s_json == <<"j","s","o","n">>

\* TYPE_MAP[key]
TYPE_MAP(key) ==
    CASE key = s_str    -> Ok(PyStr(s_string))
      [] key = s_int    -> Ok(PyStr(s_integer))
      [] key = s_float  -> Ok(PyStr(s_number))
      [] key = s_bool   -> Ok(PyStr(s_boolean))
      [] key = s_json   -> Ok(PyStr(s_object))
      [] key = s_object -> Ok(PyStr(s_object))
      [] key = s_list   -> Ok(PyStr(s_array))
      [] key = s_dict   -> Ok(PyStr(s_object))
      [] OTHER          -> Raise("KeyError")

\* the constructor without the path rule
ApiParameter_AsGiven(kw) ==
    [location |-> IF Truthy(kw.location) THEN kw.location ELSE PyStr(s_query),
     required |-> kw.required,
     datatype |-> kw.datatype]

\* Parameter.__init__ as far as location, required and _datatype go
ApiParameter(kw) ==
    With(IF Truthy(kw.location) THEN kw.location ELSE PyStr(s_query),
         LAMBDA location :
            [location |-> location,
             required |-> IF location = PyStr(s_path) THEN PyTrue ELSE kw.required,
             datatype |-> kw.datatype])

\* f"{TYPE_MAP[a]}|{TYPE_MAP[b]}" if b else f"{TYPE_MAP[a]}"
ApiTypeNames(a, b) ==
    IF b = <<>> THEN a
    ELSE IF a.exc # "none" THEN a
    ELSE IF TYPE_MAP(b).exc # "none" THEN TYPE_MAP(b)
    ELSE Ok(PyStr(a.val.s \o <<"|">> \o TYPE_MAP(b).val.s))

\* the property Parameter.datatype
ApiDatatype(self) ==
    IF self.datatype.t # "str" THEN Raise("AttributeError")
    ELSE With(Partition(self.datatype.s, <<"|">>),
              LAMBDA parts :
                 ApiTypeNames(TYPE_MAP(IF ListItemType(parts[1]) # <<>> THEN s_list ELSE parts[1]),
                              parts[3]))

\* the matches of open\[(\w+)\] in s, by their position
ItemHits(s, open) ==
    {i \in Occurrences(s, open) :
        /\ WordRun(s, i + Len(open)) > 0
        /\ i + Len(open) + WordRun(s, i + Len(open)) <= Len(s)
        /\ s[i + Len(open) + WordRun(s, i + Len(open))] = "]"}

\* group 1 of the match of (?:list|array)\[(\w+)\] at position i
ItemAt(s, i, k) == SubSeq(s, i + k, i + k - 1 + WordRun(s, i + k))

\* re.search(r"(?:list|array)\[(\w+)\]", s): group 1, or <<>> for no match
ItemsTypeSearch(s) ==
    With(ItemHits(s, <<"l","i","s","t","[">>),
         LAMBDA lists :
            With(lists \cup ItemHits(s, <<"a","r","r","a","y","[">>),
                 LAMBDA hits :
                    IF hits = {} THEN <<>>
                    ELSE ItemAt(s, Min(hits), IF Min(hits) \in lists THEN 5 ELSE 6)))

\* the property Parameter.items_type
ApiItemsType(self) ==
    IF ~Truthy(self.datatype) THEN Ok(PyNone)
    ELSE IF self.datatype.t # "str" THEN Raise("TypeError")
    ELSE With(ItemsTypeSearch(self.datatype.s),
              LAMBDA item : IF item = <<>> THEN Ok(PyNone) ELSE TYPE_MAP(item))

\* the most members a declared union type has
MaxMembers == 2

\* type names an annotation declares: the Python names, a canonical name,
\* lists of an element type and the array[T] spelling
TypeAtoms ==
    {s_str, s_int, s_float, s_bool, s_list, s_dict, s_object, s_integer,
     ListOf(s_int), ListOf(s_str), ListOf(s_list),
     s_array \o <<"[">> \o s_int \o <<"]">>}

RECURSIVE Unions(_)
Unions(n) ==
    IF n = 1 THEN TypeAtoms
    ELSE {u \o <<"|">> \o a : u \in Unions(n - 1), a \in TypeAtoms}

TypeExprs == UNION {Unions(n) : n \in 1..MaxMembers}

Kwargs(location, required, datatype) ==
    [location |-> location, required |-> required, datatype |-> datatype]

\* the arguments of Parameter(...): every location with every required value,
\* and every type expression
ApiKwargs ==
    {Kwargs(l, r, PyStr(s_str)) :
        l \in {PyNone, PyStr(<<>>), PyStr(s_query), PyStr(s_path), PyStr(s_body), PyStr(s_form)},
        r \in {PyNone, PyFalse, PyTrue}}
    \cup {Kwargs(PyNone, PyNone, PyStr(t)) : t \in TypeExprs}
    \cup {Kwargs(PyStr(s_path), PyFalse, PyNone)}

InitApi ==
    /\ doc = <<>> /\ data = <<>>
    /\ query = <<>> /\ captures = <<>> /\ media = NoMedia
    /\ params = <<>> /\ schema = <<>> /\ operators = <<>>
    /\ idx = 0 /\ exc = "none"
    /\ boolArg = PyNone /\ boolRes = FALSE
    /\ results = <<>>
    /\ optArg = <<>> /\ optRes = [exc |-> "unset", d |-> <<>>]
    /\ kwargs \in ApiKwargs
    /\ apiParam = [location |-> PyNone, required |-> PyNone, datatype |-> PyNone]
    /\ apiView = [datatype |-> Unset, items_type |-> Unset]
    /\ NoAuth
    /\ pc = "kwargs"

\* Parameter(**kwargs)
NewParameter ==
    /\ pc = "kwargs"
    /\ apiParam' = ApiParameter(kwargs)
    /\ pc' = "built"
    /\ UNCHANGED <<doc, data, query, captures, media, params, schema, operators, idx, exc,
                   boolArg, boolRes, results, optArg, optRes, kwargs, apiView>>
    /\ UNCHANGED later

\* a first read of parameter.datatype
ReadDatatype ==
    /\ pc = "built" /\ apiView.datatype = Unset
    /\ apiView' = [apiView EXCEPT !.datatype = ApiDatatype(apiParam)]
    /\ UNCHANGED <<doc, data, query, captures, media, params, schema, operators, idx, exc, pc,
                   boolArg, boolRes, results, optArg, optRes, kwargs, apiParam>>
    /\ UNCHANGED later

\* a first read of parameter.items_type
ReadItemsType ==
    /\ pc = "built" /\ apiView.items_type = Unset
    /\ apiView' = [apiView EXCEPT !.items_type = ApiItemsType(apiParam)]
    /\ UNCHANGED <<doc, data, query, captures, media, params, schema, operators, idx, exc, pc,
                   boolArg, boolRes, results, optArg, optRes, kwargs, apiParam>>
    /\ UNCHANGED later

NextApi ==
    \/ NewParameter
    \/ ReadDatatype
    \/ ReadItemsType

SpecApi == InitApi /\ [][NextApi]_vars

-----------------------------------------------------------------------------
(* reliqua/sphinx_parser.py: the other entries of the operation dict *)

\* str.replace(a, b) for one-character a and b
Replace(s, a, b) == [i \in DOMAIN s |-> IF s[i] = a THEN b ELSE s[i]]

\* SphinxParser.summary: group 1 of re.search(r"(.*?)\n", doc) is the text
\* before the first line break
summary(d) ==
    With(First({i \in DOMAIN d : d[i] = "\n"}),
         LAMBDA nl : IF nl = 0 THEN <<>> ELSE Strip(Slice(d, 1, nl - 1)))

\* group 1 of re.search(r"\n\n(.*?):", doc) for the first blank line at i:
\* the text up to the nearest colon behind it
DescriptionFrom(d, i) ==
    With(First({c \in (i + 2)..Len(d) : d[c] = ":"}),
         LAMBDA c : IF c = 0 THEN <<>> ELSE Strip(Replace(Slice(d, i + 2, c - 1), "\n", " ")))

\* SphinxParser.description
description(d) ==
    With(First(Occurrences(d, <<"\n","\n">>)),
         LAMBDA i : IF i = 0 THEN <<>> ELSE DescriptionFrom(d, i))

\* (\w+): at position b, behind white space that starts at a: the word, or
\* <<>> for no match
TagWord(s, a, b, closed) ==
    IF b = a \/ RunLen(s, b, WordAt(s)) = 0 THEN <<>>
    ELSE IF closed /\ ~StartsAt(s, <<":">>, b + RunLen(s, b, WordAt(s))) THEN <<>>
    ELSE Slice(s, b, b + RunLen(s, b, WordAt(s)) - 1)

\* `tag\s+(\w+):|:tag:\s+(\w+)` matched at position i: the group that
\* matched, or <<>> for no match
TagAt(s, tag, i) ==
    IF StartsAt(s, tag, i)
    THEN TagWord(s, i + Len(tag), i + Len(tag) + RunLen(s, i + Len(tag), SpaceAt(s)), TRUE)
    ELSE IF StartsAt(s, <<":">> \o tag \o <<":">>, i)
    THEN TagWord(s, i + Len(tag) + 2,
                 i + Len(tag) + 2 + RunLen(s, i + Len(tag) + 2, SpaceAt(s)), FALSE)
    ELSE <<>>

\* RETURN_REGEX.search(doc) or ACCEPT_REGEX.search(doc): group(1) or
\* group(2) of the first match, or `none` for no match
TagSearch(s, tag, none) ==
    With(First({i \in DOMAIN s : TagAt(s, tag, i) # <<>>}),
         LAMBDA i : IF i = 0 THEN none ELSE TagAt(s, tag, i))

\* SphinxParser.content
content(d) == TagSearch(d, <<"r","e","t","u","r","n">>, s_json)

\* SphinxParser.accepts
accepts(d) == TagSearch(d, <<"a","c","c","e","p","t","s">>, <<>>)

s_response == <<":","r","e","s","p","o","n","s","e">>

DigitAt(s) == {i \in DOMAIN s : IsDigit(s[i])}

\* RESPONSE_ITER_REGEX from the colon at position f on: `:\s+(\w+)`; the
\* description starts at h
ResponseTail(s, b, c, e, f, h) ==
    IF ~StartsAt(s, <<":">>, f) \/ h = f + 1 \/ RunLen(s, h, WordAt(s)) = 0
    THEN [ok |-> FALSE, end |-> 0, d |-> <<>>]
    ELSE [ok  |-> TRUE,
          end |-> h + RunLen(s, h, WordAt(s)),
          d   |-> <<Entry(<<"c","o","d","e">>, PyStr(Slice(s, b, c - 1))),
                    Entry(<<"s","c","h","e","m","a">>,
                          IF f = e THEN PyNone ELSE PyStr(Slice(s, e, f - 1))),
                    Entry(s_description, PyStr(Slice(s, h, h + RunLen(s, h, WordAt(s)) - 1)))>>]

\* RESPONSE_ITER_REGEX from the code at position b on: `(\d+)\s*(\w+)?`,
\* the code ending before c and the schema starting at e
ResponseSchema(s, b, c, e) ==
    With(e + RunLen(s, e, WordAt(s)),
         LAMBDA f : ResponseTail(s, b, c, e, f, f + 1 + RunLen(s, f + 1, SpaceAt(s))))

ResponseCode(s, a, b) ==
    IF b = a \/ RunLen(s, b, DigitAt(s)) = 0 THEN [ok |-> FALSE, end |-> 0, d |-> <<>>]
    ELSE With(b + RunLen(s, b, DigitAt(s)),
              LAMBDA c : ResponseSchema(s, b, c, c + RunLen(s, c, SpaceAt(s))))

\* RESPONSE_ITER_REGEX matched at position i
ResponseAt(s, i) ==
    IF ~StartsAt(s, s_response, i) THEN [ok |-> FALSE, end |-> 0, d |-> <<>>]
    ELSE ResponseCode(s, i + 9, i + 9 + RunLen(s, i + 9, SpaceAt(s)))

\* RESPONSE_ITER_REGEX.finditer(s) from position pos: the groupdict of each
\* match (response["schema"] = response.get("schema", {}) changes nothing)
RECURSIVE ResponseIter(_, _)
ResponseFrom(s, m) == <<m.d>> \o ResponseIter(s, m.end)

ResponseIter(s, pos) ==
    With(First({i \in pos..Len(s) : ResponseAt(s, i).ok}),
         LAMBDA i : IF i = 0 THEN <<>> ELSE ResponseFrom(s, ResponseAt(s, i)))

\* SphinxParser.responses
responses(d) == ResponseIter(d, 1)

Verbs == {<<"d","e","l","e","t","e">>, <<"g","e","t">>, <<"p","a","t","c","h">>,
          <<"p","o","s","t">>, <<"p","u","t">>}

\* the verb of on_(delete|get|patch|post|put) matched at position i, or <<>>
VerbAt(s, i) ==
    IF \E v \in Verbs : StartsAt(s, <<"o","n","_">> \o v, i)
    THEN CHOOSE v \in Verbs : StartsAt(s, <<"o","n","_">> \o v, i)
    ELSE <<>>

\* SphinxParser.parse_operation: group 1 of OPERATION_REGEX, or None
parse_operation(qualname) ==
    With(First({i \in DOMAIN qualname : VerbAt(qualname, i) # <<>>}),
         LAMBDA i : IF i = 0 THEN PyNone ELSE PyStr(VerbAt(qualname, i)))

\* SUFFIX_REGEX matched at position i: group 1, the run of [a-zA-Z0-9_]
\* behind on_<verb>_, or <<>>
SuffixAt(s, i) ==
    IF VerbAt(s, i) = <<>> THEN <<>>
    ELSE With(i + 3 + Len(VerbAt(s, i)),
              LAMBDA u : IF StartsAt(s, <<"_">>, u)
                         THEN Slice(s, u + 1, u + RunLen(s, u + 1, WordAt(s)))
                         ELSE <<>>)

\* SphinxParser._parse_suffix
parse_suffix(qualname) ==
    With(First({i \in DOMAIN qualname : SuffixAt(qualname, i) # <<>>}),
         LAMBDA i : IF i = 0 THEN PyNone ELSE PyStr(SuffixAt(qualname, i)))

\* no dict: parse raised
NoOperation ==
    [operation |-> PyNone, operation_id |-> PyNone, suffix |-> PyNone, summary |-> <<>>,
     description |-> <<>>, parameters |-> <<>>, responses |-> <<>>, return_type |-> <<>>,
     accepts |-> <<>>]

\* the dict SphinxParser.parse returns for self.doc = d, whose parameters
\* property gave `found`; an exception of the property escapes parse
Operation(qualname, d, found) ==
    IF found.exc # "none" THEN [exc |-> found.exc, doc |-> d, operation |-> NoOperation]
    ELSE [exc |-> "none", doc |-> d,
          operation |->
             [operation    |-> parse_operation(qualname),
              operation_id |-> PyStr(qualname),
              suffix       |-> parse_suffix(qualname),
              summary      |-> summary(d),
              description  |-> description(d),
              parameters   |-> found.l,
              responses    |-> responses(d),
              return_type  |-> content(d),
              accepts      |-> accepts(d)]]

\* parse reading a docstring only on a parser that has none yet
parse_KeepDoc(selfdoc, method) ==
    IF method.doc = PyNone
    THEN [exc |-> "AttributeError", doc |-> selfdoc, operation |-> NoOperation]
    ELSE With(IF selfdoc # <<>> THEN selfdoc ELSE cleandoc(method.doc.s),
              LAMBDA d : Operation(method.qualname, d, parameters(d)))

\* SphinxParser.parse(method) on a parser whose self.doc is selfdoc: the
\* exception, self.doc afterwards and the operation dict.  inspect.cleandoc
\* of a missing docstring (None) raises AttributeError before self.doc is
\* assigned.
parse(selfdoc, method) ==
    IF method.doc = PyNone
    THEN [exc |-> "AttributeError", doc |-> selfdoc, operation |-> NoOperation]
    ELSE With(cleandoc(method.doc.s),
              LAMBDA d : Operation(method.qualname, d, parameters(d)))

-----------------------------------------------------------------------------
(* SphinxParser.parse_options on its own: the calls parse_options(string) *)

\* the words of an option list: a location, the required and optional flags,
\* and key=value options whose values may spell those flags
OptionWords ==
    [in   : {<<>>, <<"i","n","=","q","u","e","r","y">>, <<"i","n","=","p","a","t","h">>,
             <<"i","n","=","b","o","d","y">>},
     flag : {<<>>, s_required, s_optional, s_required \o <<" ">> \o s_optional},
     more : {<<>>,
             <<"d","e","f","a","u","l","t","=","h","e","l","l","o">>,
             <<"d","e","f","a","u","l","t","=">> \o s_required,
             <<"d","e","f","a","u","l","t","=">> \o s_optional,
             <<"e","n","u","m","=","c","o","l","o","r","s">>,
             <<"e","n","u","m","=","n","o","t">> \o s_required,
             <<"m","i","n","=","1"," ","m","a","x","=","1","0","0">>}]

\* the words of w that are there, joined by single spaces
OptionString(w) ==
    Join(SelectIdx(<<w.in, w.flag, w.more>>,
                   {i \in 1..3 : <<w.in, w.flag, w.more>>[i] # <<>>}, 1), <<" ">>)

OptionStrings == {OptionString(w) : w \in OptionWords}

InitOptions ==
    /\ doc = <<>> /\ data = <<>>
    /\ query = <<>> /\ captures = <<>> /\ media = NoMedia
    /\ params = <<>> /\ schema = <<>> /\ operators = <<>>
    /\ idx = 0 /\ exc = "none"
    /\ boolArg = PyNone /\ boolRes = FALSE
    /\ results = <<>>
    /\ optArg \in OptionStrings
    /\ optRes = [exc |-> "unset", d |-> <<>>]
    /\ kwargs = [location |-> PyNone, required |-> PyNone, datatype |-> PyNone]
    /\ apiParam = [location |-> PyNone, required |-> PyNone, datatype |-> PyNone]
    /\ apiView = [datatype |-> Unset, items_type |-> Unset]
    /\ NoAuth
    /\ pc = "options"

\* the call parse_options(optArg) returns or raises
ParseOptions ==
    /\ pc = "options"
    /\ optRes' = parse_options(optArg)
    /\ pc' = "parsed"
    /\ UNCHANGED <<doc, data, query, captures, media, params, schema, operators, idx, exc,
                   boolArg, boolRes, results, optArg, kwargs, apiParam, apiView>>
    /\ UNCHANGED later

NextOptions == ParseOptions

SpecOptions == InitOptions /\ [][NextOptions]_vars

-----------------------------------------------------------------------------
(* One SphinxParser serving parse calls, as in Api._parse_methods *)

\* the most parse calls followed
MaxCalls == 3

Method(d, qualname) == [doc |-> d, qualname |-> qualname]

q_on_get == <<"U","s","e","r","s",".","o","n","_","g","e","t">>
q_on_post_item == <<"U","s","e","r","s",".","o","n","_","p","o","s","t","_","i","t","e","m">>

\* a docstring with a description paragraph, a parameter, responses, and
\* the accepted and returned content
FullDoc ==
    <<"\n"," "," "," "," ","L","i","s","t","s"," ","u","s","e","r","s",".","\n","\n"," "," "," "," ","L","o","n","g"," ","t","e","x","t","\n"," "," "," "," ","h","e","r","e",".","\n","\n"," "," "," "," ",":","p","a","r","a","m"," ","s","t","r"," ","a",":"," ","[","i","n","=","q","u","e","r","y","]"," ","A","\n"," "," "," "," ",":","r","e","s","p","o","n","s","e"," ","2","0","0"," ","u","s","e","r",":"," ","O","k","\n"," "," "," "," ",":","r","e","s","p","o","n","s","e"," ","4","0","4",":"," ","M","i","s","s","i","n","g","\n"," "," "," "," ",":","a","c","c","e","p","t","s"," ","j","s","o","n",":","\n"," "," "," "," ",":","r","e","t","u","r","n"," ","j","s","o","n",":","\n"," "," "," "," ">>

\* handler methods: one without docstring, one with a summary alone, ones
\* with :param lines of several shapes (an option list without in= among
\* them), and one with every kind of entry
Methods ==
    {Method(PyNone, q_on_get),
     Method(PyStr(Docstring(<<>>, <<>>)), q_on_get),
     Method(PyStr(FullDoc), q_on_get),
     Method(PyStr(FullDoc), q_on_post_item)}
    \cup {Method(PyStr(Docstring(<<DocLine(s_str, n_email, t)>>,
                                 <<" ",":","r","e","t","u","r","n"," ","j","s","o","n",":","\n">>)),
                  q_on_get) :
             t \in {<<" ","[","i","n","=","q","u","e","r","y"," ","r","e","q","u","i","r","e","d","]"," ","M","a","i","l">>,
                    <<" ","[","d","e","f","a","u","l","t","=","a","b","]"," ","M","a","i","l">>}}

InitParse ==
    /\ doc = <<>> /\ data = <<>>
    /\ query = <<>> /\ captures = <<>> /\ media = NoMedia
    /\ params = <<>> /\ schema = <<>> /\ operators = <<>>
    /\ idx = 0 /\ exc = "none"
    /\ Idle
    /\ pc = "parser"

\* parser.parse(method): self.doc and the outcome of the call
Parse ==
    /\ pc = "parser" /\ Len(results) < MaxCalls
    /\ \E method \in Methods : \E r \in {parse(doc, method)} :
          /\ doc' = r.doc
          /\ results' = Append(results, [method |-> method, exc |-> r.exc, operation |-> r.operation])
    /\ UNCHANGED <<data, query, captures, media, params, schema, operators, idx, pc, exc,
                   boolArg, boolRes, optArg, optRes, kwargs, apiParam, apiView>>
    /\ UNCHANGED later

\* parser = SphinxParser(): the next call is served by a new parser
NewParser ==
    /\ pc = "parser" /\ results # <<>> /\ doc # <<>>
    /\ doc' = <<>>
    /\ UNCHANGED <<data, query, captures, media, params, schema, operators, idx, pc, exc,
                   boolArg, boolRes, results, optArg, optRes, kwargs, apiParam, apiView>>
    /\ UNCHANGED later

NextParse ==
    \/ Parse
    \/ NewParser

SpecParse == InitParse /\ [][NextParse]_vars

-----------------------------------------------------------------------------
(* Access control: AccessList, AccessResource, AccessCallback *)

t_a      == <<"/", "a">>
t_A      == <<"/", "A">>
t_b      == <<"/", "b">>
m_GET    == <<"G", "E", "T">>
m_get    == <<"g", "e", "t">>
m_POST   == <<"P", "O", "S", "T">>
m_post   == <<"p", "o", "s", "t">>
r_admin  == <<"a", "d", "m", "i", "n">>
r_guest  == <<"g", "u", "e", "s", "t">>
r_star   == <<"*">>

\* AccessList(routes, methods, default_mode): both lists are stored lower-cased
AccessList(routes, methods, default_mode) ==
    [NoControl EXCEPT !.kind = "list",
                      !.routes = [i \in DOMAIN routes |-> Lower(routes[i])],
                      !.methods = [i \in DOMAIN methods |-> Lower(methods[i])],
                      !.default_mode = default_mode]

\* AccessResource(default_mode, raise_on_undefined)
AccessResource(default_mode, raise_on_undefined) ==
    [NoControl EXCEPT !.kind = "resource",
                      !.default_mode = default_mode,
                      !.raise_on_undefined = raise_on_undefined]

\* AccessCallback(authenticate_callback, authorized_callback), with callbacks
\* that return `required` and `allowed`
AccessCallback(required, allowed) ==
    [NoControl EXCEPT !.kind = "callback", !.required = required, !.allowed = allowed]

\* AccessList.authentication_required(route, method, _resource)
ListAuthenticationRequired(self, route, method) ==
    LET matched == \/ Lower(route) \in Range(self.routes)
                   \/ Lower(method) \in Range(self.methods)
    IN  IF self.default_mode = "allow"
        THEN Ok(PyBool(~matched))
        ELSE Ok(PyBool(matched))

\* auth.get(key, []) on a resource's __auth__
RolesOf(auth, key) == IF Has(auth, key) THEN Get(auth, key) ELSE <<>>

\* a or b, on lists
OrElse(a, b) == IF a # <<>> THEN a ELSE b

\* AccessResource.authorized(role, _route, method, resource)
ResourceAuthorized(self, r, method, res) ==
    LET roles == OrElse(RolesOf(res.auth, r_star), RolesOf(res.auth, method))
    IN  IF roles = <<>>
        THEN IF self.raise_on_undefined THEN Raise("HTTPNotImplemented") ELSE Ok(PyTrue)
        ELSE IF (r.t = "str" /\ r.s \in Range(roles)) \/ r_star \in Range(roles)
             THEN Ok(PyTrue)
             ELSE Ok(PyFalse)

\* AccessResource.authentication_required(_route, method, resource)
ResourceAuthenticationRequired(self, method, res) ==
    LET roles == OrElse(RolesOf(res.auth, Lower(method)),
                        OrElse(RolesOf(res.auth, Upper(method)), RolesOf(res.auth, r_star)))
    IN  IF roles = <<>> /\ self.default_mode = "allow"
        THEN Ok(PyFalse)
        ELSE Ok(PyTrue)

\* control.authentication_required(route, method, resource)
authentication_required(self, route, method, res) ==
    CASE self.kind = "list"     -> ListAuthenticationRequired(self, route, method)
      [] self.kind = "resource" -> ResourceAuthenticationRequired(self, method, res)
      [] OTHER                  -> Ok(PyBool(self.required))

\* control.authorized(role, route, method, resource)
control_authorized(self, r, method, res) ==
    CASE self.kind = "list"     -> Raise("NotImplementedError")
      [] self.kind = "resource" -> ResourceAuthorized(self, r, method, res)
      [] OTHER                  -> Ok(PyBool(self.allowed))

\* the access lists and the resource controls of the model
ListControls ==
    {AccessList(routes, methods, mode) :
        routes \in {<<>>, <<t_a>>, <<t_A>>},
        methods \in {<<>>, <<m_GET>>, <<m_post>>},
        mode \in {"allow", "deny"}}

ResourceControls ==
    {AccessResource(mode, raising) : mode \in {"allow", "deny"}, raising \in BOOLEAN}

\* resources: their no_auth attribute and their __auth__ map of method to roles
Resource(no_auth, auth) == [no_auth |-> no_auth, auth |-> auth]

AuthMaps ==
    {<<>>,
     <<Entry(m_GET, <<r_admin>>)>>,
     <<Entry(m_get, <<r_admin>>)>>,
     <<Entry(m_GET, <<r_star>>)>>,
     <<Entry(r_star, <<r_admin>>)>>,
     <<Entry(m_GET, <<r_admin>>), Entry(m_POST, <<r_admin, r_guest>>)>>}

Requested == {[uri_template |-> u, method |-> m] : u \in {t_a, t_A, t_b},
                                                    m \in {m_GET, m_get, m_POST}}

Roles == {PyStr(r_admin), PyStr(r_guest), PyStr(r_star)}

InitAccess ==
    /\ doc = <<>> /\ data = <<>>
    /\ query = <<>> /\ captures = <<>> /\ media = NoMedia
    /\ params = <<>> /\ schema = <<>> /\ operators = <<>>
    /\ idx = 0 /\ exc = "none"
    /\ boolArg = PyNone /\ boolRes = FALSE
    /\ results = <<>>
    /\ optArg = <<>> /\ optRes = [exc |-> "unset", d |-> <<>>]
    /\ kwargs = [location |-> PyNone, required |-> PyNone, datatype |-> PyNone]
    /\ apiParam = [location |-> PyNone, required |-> PyNone, datatype |-> PyNone]
    /\ apiView = [datatype |-> Unset, items_type |-> Unset]
    /\ control \in ListControls \cup ResourceControls
    /\ \E auth \in AuthMaps : resource = Resource(FALSE, auth)
    /\ req \in Requested
    /\ role \in Roles
    /\ answer = NoAnswer
    /\ authenticators = <<>>
    /\ calls = <<>>
    /\ user = PyNone
    /\ authorized = PyFalse
    /\ Alone
    /\ context = <<>>
    /\ pc = "access"

\* control.authentication_required(req.uri_template, req.method, resource)
AuthenticationRequired ==
    /\ pc = "access" /\ answer.required = Unset
    /\ answer' = [answer EXCEPT
                     !.required = authentication_required(control, req.uri_template,
                                                          req.method, resource)]
    /\ UNCHANGED <<doc, data, query, captures, media, params, schema, operators, idx, pc, exc,
                   boolArg, boolRes, results, optArg, optRes, kwargs, apiParam, apiView>>
    /\ UNCHANGED <<control, resource, req, role, authenticators, calls, user, authorized,
                   context>>
    /\ UNCHANGED <<inflight, attribute, served>>

\* control.authorized(role, req.uri_template, req.method, resource)
Authorized ==
    /\ pc = "access" /\ answer.authorized = Unset
    /\ answer' = [answer EXCEPT
                     !.authorized = control_authorized(control, role, req.method, resource)]
    /\ UNCHANGED <<doc, data, query, captures, media, params, schema, operators, idx, pc, exc,
                   boolArg, boolRes, results, optArg, optRes, kwargs, apiParam, apiView>>
    /\ UNCHANGED <<control, resource, req, role, authenticators, calls, user, authorized,
                   context>>
    /\ UNCHANGED <<inflight, attribute, served>>

NextAccess ==
    \/ AuthenticationRequired
    \/ Authorized

SpecAccess == InitAccess /\ [][NextAccess]_vars

-----------------------------------------------------------------------------
(* The authentication middleware: AuthMiddleware.process_resource, step by step *)

\* the longest list of authenticators of the model
MaxAuthenticators == 2

u_bob == <<"b", "o", "b">>
u_ted == <<"t", "e", "d">>

\* what auth.authenticate(request, response, resource) does: it raises
\* HTTPUnauthorized or returns what the validation callback returned, a tuple
\* (user,) or (user, role), a user name, or True; BearerAuthentication raises
\* NotImplementedError
AuthOutcomes ==
    {Raise("HTTPUnauthorized"),
     Raise("NotImplementedError"),
     Ok(PyList(<<PyStr(u_bob)>>)),
     Ok(PyList(<<PyStr(u_bob), PyStr(r_admin)>>)),
     Ok(PyList(<<PyStr(u_bob), PyStr(r_guest)>>)),
     Ok(PyList(<<PyStr(u_bob), PyStr(<<>>)>>)),
     Ok(PyStr(u_ted)),
     Ok(PyTrue)}

AuthenticatorLists ==
    UNION {[1..n -> AuthOutcomes] : n \in 0..MaxAuthenticators}

\* the access controls a middleware of the model is built with
MiddlewareControls ==
    {AccessCallback(required, allowed) : required \in BOOLEAN, allowed \in BOOLEAN}
    \cup {AccessResource("deny", FALSE), AccessResource("allow", FALSE),
          AccessResource("deny", TRUE), AccessList(<<t_a>>, <<>>, "deny")}

\* a gate that does not look at the resource's no_auth attribute
no_auth_Ignored(res) == FALSE

\* getattr(resource, "no_auth", False)
no_auth(res) == res.no_auth

\* the items of an iterable, as `user, *role = ...` takes them
ItemsOf(v) ==
    CASE v.t = "str"  -> [i \in DOMAIN v.s |-> PyStr(<<v.s[i]>>)]
      [] v.t = "list" -> v.l
      [] OTHER        -> <<>>

\* user, *role = <identity>; role = role[0] if role else None
Unpacked(v) ==
    IF v.t \notin {"str", "list"}
    THEN [exc |-> "TypeError", user |-> PyNone, role |-> PyNone]
    ELSE With(ItemsOf(v),
              LAMBDA items :
                  IF items = <<>>
                  THEN [exc |-> "ValueError", user |-> PyNone, role |-> PyNone]
                  ELSE [exc |-> "none", user |-> items[1],
                        role |-> IF Len(items) > 1 THEN items[2] ELSE PyNone])

\* the keys of req.context
k_role       == <<"r", "o", "l", "e">>
k_authorized == <<"a", "u", "t", "h", "o", "r", "i", "z", "e", "d">>
k_user       == <<"u", "s", "e", "r">>

\* a check that lets every answer of control.authorized through
not_authorized_Never(a) == FALSE

\* `if not authorized` after control.authorized
not_authorized(a) == ~Truthy(a)

Call(fn, i) == [fn |-> fn, i |-> i]

InitAuth ==
    /\ doc = <<>> /\ data = <<>>
    /\ query = <<>> /\ captures = <<>> /\ media = NoMedia
    /\ params = <<>> /\ schema = <<>> /\ operators = <<>>
    /\ idx = 0 /\ exc = "none"
    /\ boolArg = PyNone /\ boolRes = FALSE
    /\ results = <<>>
    /\ optArg = <<>> /\ optRes = [exc |-> "unset", d |-> <<>>]
    /\ kwargs = [location |-> PyNone, required |-> PyNone, datatype |-> PyNone]
    /\ apiParam = [location |-> PyNone, required |-> PyNone, datatype |-> PyNone]
    /\ apiView = [datatype |-> Unset, items_type |-> Unset]
    /\ control \in MiddlewareControls
    /\ \E na \in BOOLEAN, auth \in {<<>>, <<Entry(m_GET, <<r_admin>>)>>} :
          resource = Resource(na, auth)
    /\ req \in {[uri_template |-> t_a, method |-> m_GET],
                [uri_template |-> t_b, method |-> m_POST]}
    /\ authenticators \in AuthenticatorLists
    /\ role = PyNone
    /\ answer = NoAnswer
    /\ calls = <<>>
    /\ user = PyNone
    /\ authorized = PyFalse
    /\ Alone
    /\ context = <<>>
    /\ pc = "gate"

\* lines 677-683: the locals, and the return for a resource with no_auth
Gate ==
    /\ pc = "gate"
    /\ user' = PyNone
    /\ authorized' = PyFalse
    /\ pc' = IF no_auth(resource) THEN "returned" ELSE "required"
    /\ UNCHANGED <<doc, data, query, captures, media, params, schema, operators, idx, exc,
                   boolArg, boolRes, results, optArg, optRes, kwargs, apiParam, apiView>>
    /\ UNCHANGED <<control, resource, req, role, answer, authenticators, calls, context>>
    /\ UNCHANGED <<inflight, attribute, served>>

\* lines 686-687: control.authentication_required decides whether to go on
Required ==
    /\ pc = "required"
    /\ calls' = Append(calls, Call("authentication_required", 0))
    /\ \E r \in {authentication_required(control, req.uri_template, req.method, resource)} :
          /\ answer' = [answer EXCEPT !.required = r]
          /\ IF r.exc # "none"
             THEN pc' = "raised" /\ exc' = r.exc /\ idx' = idx
             ELSE IF ~Truthy(r.val)
                  THEN pc' = "returned" /\ exc' = exc /\ idx' = idx
                  ELSE pc' = "authenticate" /\ exc' = exc /\ idx' = 1
    /\ UNCHANGED <<doc, data, query, captures, media, params, schema, operators,
                   boolArg, boolRes, results, optArg, optRes, kwargs, apiParam, apiView>>
    /\ UNCHANGED <<control, resource, req, role, authenticators, user, authorized, context>>
    /\ UNCHANGED <<inflight, attribute, served>>

\* lines 655-659 and 690-691: the next authenticator is called; HTTPUnauthorized
\* moves on to the one after it, any other outcome ends the loop
Authenticate ==
    /\ pc = "authenticate" /\ idx <= Len(authenticators)
    /\ calls' = Append(calls, Call("authenticate", idx))
    /\ \E r \in {authenticators[idx]} :
          IF r.exc = "HTTPUnauthorized"
          THEN /\ idx' = idx + 1
               /\ UNCHANGED <<pc, exc, user, role>>
          ELSE IF r.exc # "none"
               THEN /\ pc' = "raised" /\ exc' = r.exc
                    /\ UNCHANGED <<idx, user, role>>
               ELSE \E u \in {Unpacked(r.val)} :
                       IF u.exc # "none"
                       THEN /\ pc' = "raised" /\ exc' = u.exc
                            /\ UNCHANGED <<idx, user, role>>
                       ELSE /\ user' = u.user /\ role' = u.role
                            /\ pc' = "authorize"
                            /\ UNCHANGED <<idx, exc>>
    /\ UNCHANGED <<doc, data, query, captures, media, params, schema, operators,
                   boolArg, boolRes, results, optArg, optRes, kwargs, apiParam, apiView>>
    /\ UNCHANGED <<control, resource, req, answer, authenticators, authorized, context>>
    /\ UNCHANGED <<inflight, attribute, served>>

\* line 661: every authenticator raised HTTPUnauthorized
AuthenticateFails ==
    /\ pc = "authenticate" /\ idx > Len(authenticators)
    /\ pc' = "raised"
    /\ exc' = "HTTPUnauthorized"
    /\ UNCHANGED <<doc, data, query, captures, media, params, schema, operators, idx,
                   boolArg, boolRes, results, optArg, optRes, kwargs, apiParam, apiView>>
    /\ UNCHANGED later

\* lines 694-699: a role is checked with control.authorized
Authorize ==
    /\ pc = "authorize"
    /\ IF Truthy(role)
       THEN /\ calls' = Append(calls, Call("authorized", 0))
            /\ \E r \in {control_authorized(control, role, req.method, resource)} :
                  /\ answer' = [answer EXCEPT !.authorized = r]
                  /\ IF r.exc # "none"
                     THEN pc' = "raised" /\ exc' = r.exc /\ authorized' = authorized
                     ELSE /\ authorized' = r.val
                          /\ IF not_authorized(r.val)
                             THEN pc' = "raised" /\ exc' = "HTTPUnauthorized"
                             ELSE pc' = "context" /\ exc' = exc
       ELSE /\ pc' = "context"
            /\ UNCHANGED <<calls, answer, authorized, exc>>
    /\ UNCHANGED <<doc, data, query, captures, media, params, schema, operators, idx,
                   boolArg, boolRes, results, optArg, optRes, kwargs, apiParam, apiView>>
    /\ UNCHANGED <<control, resource, req, role, authenticators, user, context>>
    /\ UNCHANGED <<inflight, attribute, served>>

\* lines 701-703: the request context receives role, authorized and user
SetContext ==
    /\ pc = "context"
    /\ context' = Set(Set(Set(context, k_role, role), k_authorized, authorized), k_user, user)
    /\ pc' = "returned"
    /\ UNCHANGED <<doc, data, query, captures, media, params, schema, operators, idx, exc,
                   boolArg, boolRes, results, optArg, optRes, kwargs, apiParam, apiView>>
    /\ UNCHANGED <<control, resource, req, role, answer, authenticators, calls, user,
                   authorized>>
    /\ UNCHANGED <<inflight, attribute, served>>

NextAuth ==
    \/ Gate
    \/ Required
    \/ Authenticate
    \/ AuthenticateFails
    \/ Authorize
    \/ SetContext

SpecAuth == InitAuth /\ [][NextAuth]_vars

-----------------------------------------------------------------------------
(* Concurrent requests to one resource: ProcessParams.process_resource *)

\* the most requests in flight at once
MaxRequests == 2

\* a request entering process_resource: its own request.params and locals
InFlight(r) ==
    [query |-> r.query, captures |-> r.captures, media |-> r.media,
     params |-> r.query, schema |-> <<>>, operators |-> <<>>,
     idx |-> 0, pc |-> "start", exc |-> "none"]

\* the parameter lists and the requests of the concurrent model
SharedSchemas ==
    {<<Descriptor(n_a, s_int, PyNone, FALSE)>>,
     <<Descriptor(n_a, ListOf(s_int), PyNone, FALSE),
       Descriptor(n_b, s_int, PyStr(<<"5">>), FALSE)>>,
     <<Descriptor(n_a, s_str, PyNone, TRUE), Descriptor(n_b, s_int, PyNone, FALSE)>>}

SharedRequests ==
    {Request(<<Entry(n_a, PyStr(<<"2","5">>))>>, <<>>, NoMedia),
     Request(<<Entry(OpKey(n_a, s_in), PyStr(<<"2","5">>))>>, <<>>, NoMedia),
     Request(<<Entry(OpKey(n_b, s_between), PyStr(<<"2","5">>))>>, <<>>, NoMedia),
     Request(<<Entry(n_b, PyStr(<<"5">>))>>, <<Entry(n_a, PyStr(<<"7">>))>>, NoMedia)}

\* a Parameter that keeps the dict it was built from as its __dict__
DictAfter_Aliased(x, parameter) == Set(x, s_datatype, PyStr(parameter.datatype))

\* the parameter dict x of resource.__data__ after an assignment to an
\* attribute of the Parameter built from it: Parameter(**x) copied the items
\* into the object's own __dict__, so x is as it was
DictAfter(x, parameter) == x

InitShared ==
    /\ doc = <<>>
    /\ data \in SharedSchemas
    /\ query = <<>> /\ captures = <<>> /\ media = NoMedia
    /\ params = <<>> /\ schema = <<>> /\ operators = <<>>
    /\ idx = 0 /\ exc = "none"
    /\ boolArg = PyNone /\ boolRes = FALSE
    /\ results = <<>>
    /\ optArg = <<>> /\ optRes = [exc |-> "unset", d |-> <<>>]
    /\ kwargs = [location |-> PyNone, required |-> PyNone, datatype |-> PyNone]
    /\ apiParam = [location |-> PyNone, required |-> PyNone, datatype |-> PyNone]
    /\ apiView = [datatype |-> Unset, items_type |-> Unset]
    /\ control = NoControl
    /\ resource = [no_auth |-> FALSE, auth |-> <<>>]
    /\ req = [uri_template |-> <<>>, method |-> <<>>]
    /\ role = PyNone
    /\ answer = NoAnswer
    /\ authenticators = <<>>
    /\ calls = <<>>
    /\ user = PyNone
    /\ authorized = PyFalse
    /\ context = <<>>
    /\ \E n \in 1..MaxRequests : \E rs \in [1..n -> SharedRequests] :
          inflight = [i \in 1..n |-> InFlight(rs[i])]
    /\ attribute = <<>>
    /\ served = <<>>
    /\ pc = "serving"

\* what the actions of concurrent requests leave alone
SharedFrame ==
    /\ UNCHANGED <<doc, query, captures, media, params, schema, operators, idx, pc, exc,
                   boolArg, boolRes, results, optArg, optRes, kwargs, apiParam, apiView>>
    /\ UNCHANGED <<authVars, attribute, served>>

\* request i: get_resource_parameters and the merge of the three sources
MergeSourcesOf(i) ==
    /\ inflight[i].pc = "start"
    /\ inflight' = [inflight EXCEPT
                       ![i].schema = get_resource_parameters(data),
                       ![i].params = Merged(inflight[i].query, inflight[i].captures,
                                            inflight[i].media),
                       ![i].pc = IF data = <<>> THEN "done" ELSE "process"]
    /\ UNCHANGED data
    /\ SharedFrame

\* request i: _parse_operators and the "operators" entry
ParseOperatorsOf(i) ==
    /\ inflight[i].pc = "process"
    /\ \E r \in {parse_operators(inflight[i].params)} :
          inflight' = [inflight EXCEPT
                          ![i].operators = r.operators,
                          ![i].params = IF r.operators # <<>>
                                        THEN Set(r.params, s_operators, DictValue(r.operators))
                                        ELSE r.params,
                          ![i].idx = 1,
                          ![i].pc = "loop"]
    /\ UNCHANGED data
    /\ SharedFrame

\* request i: one turn of `for parameter in parameters`; the assignments to
\* parameter.datatype reach the Parameter object of this request
ProcessParameterOf(i) ==
    /\ inflight[i].pc = "loop"
    /\ \E k \in {inflight[i].idx} :
       \E r \in {ProcessOne(inflight[i].params, inflight[i].operators, inflight[i].schema[k])} :
          /\ inflight' = [inflight EXCEPT
                             ![i].params = r.params,
                             ![i].schema[k] = r.parameter,
                             ![i].exc = r.exc,
                             ![i].pc = IF r.exc # "none" THEN "raised"
                                       ELSE IF k = Len(inflight[i].schema) THEN "done"
                                       ELSE "loop",
                             ![i].idx = k + 1]
          /\ data' = [data EXCEPT ![k] = DictAfter(data[k], r.parameter)]
    /\ SharedFrame

NextShared ==
    \E i \in DOMAIN inflight :
        \/ MergeSourcesOf(i)
        \/ ParseOperatorsOf(i)
        \/ ProcessParameterOf(i)

SpecShared == InitShared /\ [][NextShared]_vars

-----------------------------------------------------------------------------
(* Enum options: ResourceSchema.process_parameters when the documentation is built *)

\* the most requests served after the application is built
MaxServed == 2

a_colors == <<"c", "o", "l", "o", "r", "s">>

\* getattr(resource, name), over the resource's attributes
getattr(attrs, name) ==
    IF name.t # "str" THEN Raise("TypeError")
    ELSE IF Has(attrs, name.s) THEN Ok(Get(attrs, name.s))
    ELSE Raise("AttributeError")

\* parameter["enum"] = getattr(self.resource, enum) if enum else []
WithEnum(parameter, attrs) ==
    With(GetOrNone(parameter, s_enum),
         LAMBDA enum :
             IF ~Truthy(enum)
             THEN [exc |-> "none", d |-> Set(parameter, s_enum, PyList(<<>>))]
             ELSE With(getattr(attrs, enum),
                       LAMBDA r : IF r.exc # "none" THEN [exc |-> r.exc, d |-> parameter]
                                  ELSE [exc |-> "none", d |-> Set(parameter, s_enum, r.val)]))

\* ResourceSchema.process_parameters over operation["parameters"]: the dicts
\* after the loop, or the exception that ended it
RECURSIVE process_parameters(_, _, _)
process_parameters(ps, attrs, i) ==
    IF i > Len(ps) THEN [exc |-> "none", l |-> ps]
    ELSE With(WithEnum(ps[i], attrs),
              LAMBDA r : IF r.exc # "none" THEN [exc |-> r.exc, l |-> ps]
                         ELSE process_parameters([ps EXCEPT ![i] = r.d], attrs, i + 1))

\* Parameter(**x).enum for the parameter dicts of a request
EnumsOf(ps) == [i \in DOMAIN ps |-> GetOrNone(ps[i], s_enum)]

\* handler docstrings with and without an enum option
EnumDocs ==
    {Docstring(<<DocLine(s_str, n_email, t)>>, e) :
        t \in {<<" ","[","i","n","=","q","u","e","r","y"," ","e","n","u","m","=","c","o","l","o","r","s","]"," ","M","a","i","l">>,
               <<" ","[","i","n","=","q","u","e","r","y","]"," ","M","a","i","l">>,
               <<" "," ","M","a","i","l">>},
        e \in Endings \ {<<>>}}

\* values of the resource's attribute `colors`
EnumValues ==
    {PyList(<<PyStr(<<"r">>)>>), PyList(<<PyStr(<<"r">>), PyStr(<<"g">>)>>), PyList(<<>>)}

InitEnum ==
    /\ doc \in EnumDocs
    /\ data = <<>>
    /\ query = <<>> /\ captures = <<>> /\ media = NoMedia
    /\ params = <<>> /\ schema = <<>> /\ operators = <<>>
    /\ idx = 0 /\ exc = "none"
    /\ boolArg = PyNone /\ boolRes = FALSE
    /\ results = <<>>
    /\ optArg = <<>> /\ optRes = [exc |-> "unset", d |-> <<>>]
    /\ kwargs = [location |-> PyNone, required |-> PyNone, datatype |-> PyNone]
    /\ apiParam = [location |-> PyNone, required |-> PyNone, datatype |-> PyNone]
    /\ apiView = [datatype |-> Unset, items_type |-> Unset]
    /\ control = NoControl
    /\ resource = [no_auth |-> FALSE, auth |-> <<>>]
    /\ req = [uri_template |-> <<>>, method |-> <<>>]
    /\ role = PyNone
    /\ answer = NoAnswer
    /\ authenticators = <<>>
    /\ calls = <<>>
    /\ user = PyNone
    /\ authorized = PyFalse
    /\ context = <<>>
    /\ inflight = <<>>
    /\ attribute \in {<<>>} \cup {<<Entry(a_colors, v)>> : v \in EnumValues}
    /\ served = <<>>
    /\ pc = "compile"

\* Api._add_docs, after _parse_docstrings: process_parameters writes the
\* values of the named attribute into the parameter dicts of resource.__data__
AddDocs ==
    /\ pc = "start"
    /\ \E r \in {process_parameters(data, attribute, 1)} :
          /\ data' = r.l
          /\ exc' = r.exc
          /\ pc' = IF r.exc = "none" THEN "ready" ELSE "raised"
    /\ UNCHANGED <<doc, query, captures, media, params, schema, operators, idx,
                   boolArg, boolRes, results, optArg, optRes, kwargs, apiParam, apiView>>
    /\ UNCHANGED <<authVars, inflight, attribute, served>>

\* between two requests the resource's attribute is given another value
Rebind ==
    /\ pc = "ready"
    /\ \E v \in EnumValues :
          /\ attribute # <<Entry(a_colors, v)>>
          /\ attribute' = <<Entry(a_colors, v)>>
    /\ UNCHANGED <<doc, data, query, captures, media, params, schema, operators, idx, pc, exc,
                   boolArg, boolRes, results, optArg, optRes, kwargs, apiParam, apiView>>
    /\ UNCHANGED <<authVars, inflight, served>>

\* a request: the enum values of the Parameter objects that
\* get_resource_parameters builds for it, beside the resource's attributes
Serve ==
    /\ pc = "ready" /\ Len(served) < MaxServed
    /\ served' = Append(served, [enum |-> EnumsOf(data), attribute |-> attribute])
    /\ UNCHANGED <<doc, data, query, captures, media, params, schema, operators, idx, pc, exc,
                   boolArg, boolRes, results, optArg, optRes, kwargs, apiParam, apiView>>
    /\ UNCHANGED <<authVars, inflight, attribute>>

NextEnum ==
    \/ Compile
    \/ AddDocs
    \/ Rebind
    \/ Serve

SpecEnum == InitEnum /\ [][NextEnum]_vars

-----------------------------------------------------------------------------
(* C11 *)

\* the client errors of falcon: HTTPBadRequest and its subclasses
\* HTTPMissingParam and HTTPInvalidParam (status 400)
C11_BadRequests == {"HTTPBadRequest", "HTTPMissingParam", "HTTPInvalidParam"}

\* C11: every error that escapes process_resource is an HTTP bad-request
\* error; a text that is no number, given for an int parameter, raises such an
\* error and the parameter keeps no converted value.
C11_OnlyBadRequests ==
    /\ pc = "raised" => exc \in C11_BadRequests
    /\ \A i \in DOMAIN data :
          LET p == Declared(i)
          IN  (/\ Processed(i) /\ p.datatype = s_int /\ Has(InputMap, p.name)
               /\ Get(InputMap, p.name).t = "str"
               /\ ~IsIntLiteral(Strip(Get(InputMap, p.name).s))) =>
                 /\ RaisedAt(i)
                 /\ exc \in C11_BadRequests
                 /\ Get(params, p.name) = Get(InputMap, p.name)


-----------------------------------------------------------------------------
(* C12 *)

\* the declared parameters that are required, have no default, and are absent
\* from the request
C12_Missing ==
    {i \in DOMAIN data :
        /\ Declared(i).required /\ Declared(i).default = PyNone
        /\ ~Has(InputMap, Declared(i).name)}

-----------------------------------------------------------------------------
(* C13 *)

\* request.params as the merge left it is what the variable params holds
\* right after MergeSources
C13_JustMerged == pc = "process" \/ (pc = "done" /\ data = <<>>)

\* the keys and values of the body: of a dict body its items, of a multipart
\* form one item per part whose content type is in `types`
C13_BodyItems(types) ==
    IF media.kind = "dict" THEN media.d
    ELSE IF media.kind = "form"
    THEN SelectIdx([i \in DOMAIN media.parts |-> Entry(media.parts[i].name, media.parts[i].v)],
                   {i \in DOMAIN media.parts : media.parts[i].content_type \in types}, 1)
    ELSE <<>>

\* the value the last item of `items` with key k gives
C13_LastValue(items, k) == items[Max({i \in DOMAIN items : items[i].k = k})].v

\* the merge law for body items `items`
C13_MergeLaw(items) ==
    C13_JustMerged =>
        /\ Keys(params) = Keys(query) \cup Keys(captures) \cup Keys(items)
        /\ \A k \in Keys(items) : Get(params, k) = C13_LastValue(items, k)
        /\ \A k \in Keys(captures) \ Keys(items) :
              Get(params, k) = C13_LastValue(captures, k)
        /\ \A k \in Keys(query) \ (Keys(captures) \cup Keys(items)) :
              Get(params, k) = C13_LastValue(query, k)

C13_AllTypes == {"text/plain", "application/json", "image/png"}

\* C13, as claimed: process_resource merges query string, path captures and
\* body/form payload into request.params, and a key of the body or of any
\* part of the form holds the body/form value, also when the query string
\* has the key.
C13_AsClaimed == C13_MergeLaw(C13_BodyItems(C13_AllTypes))

\* C13, amended: the same, where the form payload is the parts of content
\* type text/plain (their text) and application/json (their media); parts of
\* any other content type give no key.
C13_BodyWins == C13_MergeLaw(C13_BodyItems({"text/plain", "application/json"}))

\* a=x in the query string and a text part a=25 in the form merge to a=25
C13_Witness ==
    /\ C13_JustMerged
    /\ query = <<Entry(n_a, PyStr(<<"x">>))>>
    /\ media = FormMedia(<<Part(n_a, "text/plain", PyStr(<<"2","5">>))>>)
    /\ params = <<Entry(n_a, PyStr(<<"2","5">>))>>


-----------------------------------------------------------------------------
(* C14 *)

\* C14: every openapi.Parameter constructed with location "path" has
\* required True, whatever required value was supplied.
C14_PathRequired ==
    (pc = "built" /\ kwargs.location = PyStr(s_path)) => apiParam.required = PyTrue

\* Parameter(location="path", required=False) has required True
C14_Witness ==
    /\ pc = "built"
    /\ kwargs.location = PyStr(s_path) /\ kwargs.required = PyFalse
    /\ apiParam.required = PyTrue

-----------------------------------------------------------------------------
(* C20 *)

\* the type name is list[T]
C20_IsListOf(t) == ListItemType(t) # <<>> /\ t = ListOf(ListItemType(t))

\* the canonical name of one member of a type expression: array for list[T],
\* the TYPE_MAP name of a Python name, and a canonical name itself
C20_Canonical(t) ==
    IF C20_IsListOf(t) THEN s_array
    ELSE IF TYPE_MAP(t).exc = "none" THEN TYPE_MAP(t).val.s
    ELSE t

\* C20: for every declared type expression both properties return without
\* an exception; datatype is the canonical names of the members joined by
\* "|"; items_type is the canonical name of T for list[T], and None for an
\* expression without a list.
C20_CanonicalTypes ==
    (pc = "built" /\ kwargs.datatype.t = "str") =>
        LET members == Split(kwargs.datatype.s, "|")
        IN  /\ apiView.datatype # Unset =>
                 /\ apiView.datatype.exc = "none"
                 /\ apiView.datatype.val =
                       PyStr(Join([i \in DOMAIN members |-> C20_Canonical(members[i])], <<"|">>))
            /\ apiView.items_type # Unset =>
                 /\ apiView.items_type.exc = "none"
                 /\ (Len(members) = 1 /\ C20_IsListOf(members[1])) =>
                       apiView.items_type.val =
                          PyStr(C20_Canonical(ListItemType(members[1])))
                 /\ (\A i \in DOMAIN members : C20_Canonical(members[i]) # s_array) =>
                       apiView.items_type.val = PyNone


-----------------------------------------------------------------------------
(* C15 *)

\* the space-separated tokens of the option list
C15_Tokens == Range(Split(optArg, " "))

\* C15: whenever parse_options returns, required is true if and only if the
\* option list has the token `required` and has not the token `optional`;
\* the text of other options does not count.
C15_RequiredIffToken ==
    (pc = "parsed" /\ optRes.exc = "none") =>
        (Get(optRes.d, s_required) = PyTrue
            <=> (s_required \in C15_Tokens /\ s_optional \notin C15_Tokens))

-----------------------------------------------------------------------------
(* C16 *)

\* the value the option list gives for `key` with a token key=value, or
\* `default` when it has no such token
C16_Given(key, default) ==
    LET hits == {t \in C15_Tokens : Partition(t, <<"=">>)[1] = key /\ Partition(t, <<"=">>)[2] # <<>>}
    IN  IF hits = {} THEN default
        ELSE PyStr(Partition(CHOOSE t \in hits : TRUE, <<"=">>)[3])

\* C16: for an option list without an in= key parse_options returns a dict
\* with location "query", the given keys at their values and the others at
\* their defaults, instead of failing.
C16_NoLocation ==
    (pc = "parsed" /\ ~\E t \in C15_Tokens : Partition(t, <<"=">>)[1] = s_in) =>
        /\ optRes.exc = "none"
        /\ Get(optRes.d, s_location) = PyStr(s_query)
        /\ Get(optRes.d, s_default) = C16_Given(s_default, PyNone)
        /\ Get(optRes.d, s_enum) = C16_Given(s_enum, PyList(<<>>))
        /\ Get(optRes.d, s_min) = C16_Given(s_min, PyNone)
        /\ Get(optRes.d, s_max) = C16_Given(s_max, PyNone)


-----------------------------------------------------------------------------
(* C17 *)

\* C17: parse raises for no docstring text: every call on a documented
\* method returns an operation dict.
C17_NeverRaises ==
    \A i \in DOMAIN results : results[i].method.doc # PyNone => results[i].exc = "none"

-----------------------------------------------------------------------------
(* C18 *)

\* C18: for a method without docstring parse does not fail, and returns an
\* operation whose parameters and responses are empty.
C18_Undocumented ==
    \A i \in DOMAIN results :
        results[i].method.doc = PyNone =>
            /\ results[i].exc = "none"
            /\ results[i].operation.parameters = <<>>
            /\ results[i].operation.responses = <<>>

-----------------------------------------------------------------------------
(* C19 *)

-----------------------------------------------------------------------------
(* C21 *)

\* the request's route or method is in the access list, whatever the case
C21_Listed ==
    \/ \E i \in DOMAIN control.routes : Lower(control.routes[i]) = Lower(req.uri_template)
    \/ \E i \in DOMAIN control.methods : Lower(control.methods[i]) = Lower(req.method)

\* C21: AccessList.authentication_required compares route and method without
\* regard to case; in default_mode "allow" a listed request requires
\* authentication and an unlisted one does not, in default_mode "deny" a listed
\* request is exempt and every other request requires authentication.
C21_ListGate ==
    (control.kind = "list" /\ answer.required # Unset)
        => /\ answer.required.exc = "none"
           /\ control.default_mode = "allow"
                 => (answer.required.val = PyTrue <=> C21_Listed)
           /\ control.default_mode = "deny"
                 => (answer.required.val = PyTrue <=> ~C21_Listed)

-----------------------------------------------------------------------------
(* C22 *)

\* the roles __auth__ defines for the request's method, whatever the case of
\* the method name
C22_Roles ==
    UNION {Range(resource.auth[i].v) :
              i \in {j \in DOMAIN resource.auth :
                        Lower(resource.auth[j].k) = Lower(req.method)}}

\* C22: AccessResource.authorized finds the roles of the request's method
\* whatever the case of the method name: a role in the list is authorized, a
\* role not in the list is not, and every role is authorized only when no
\* roles are defined for the method (raise_on_undefined off) or the list has "*".
C22_RolesOfMethod ==
    (/\ control.kind = "resource" /\ ~control.raise_on_undefined
     /\ ~Has(resource.auth, r_star)
     /\ answer.authorized # Unset)
        => /\ answer.authorized.exc = "none"
           /\ answer.authorized.val = PyTrue
                 <=> (C22_Roles = {} \/ role.s \in C22_Roles \/ r_star \in C22_Roles)

-----------------------------------------------------------------------------
(* C23 *)

\* process_resource has returned or raised
C23_Ended == pc \in {"returned", "raised"}

\* the positions of the log at which an authenticator was called
C23_Tried == {i \in DOMAIN calls : calls[i].fn = "authenticate"}

\* control.authentication_required was consulted and answered true
C23_WasRequired ==
    /\ calls # <<>>
    /\ calls[1] = Call("authentication_required", 0)
    /\ answer.required.exc = "none"
    /\ Truthy(answer.required.val)

C23_WitnessNoAuth ==
    /\ pc = "returned" /\ resource.no_auth
    /\ authentication_required(control, req.uri_template, req.method, resource) = Ok(PyTrue)
    /\ authenticators # <<>>

-----------------------------------------------------------------------------
(* C29 *)

\* process_resource returned normally after an authenticator was called
C29_Passed ==
    /\ pc = "returned"
    /\ \E i \in DOMAIN calls : calls[i].fn = "authenticate"
    /\ Has(context, k_role) /\ Has(context, k_authorized) /\ Has(context, k_user)

\* control.authorized was called
C29_Asked == \E i \in DOMAIN calls : calls[i].fn = "authorized"

\* control.authorized returned True and the context says so
C29_Granted ==
    /\ C29_Asked
    /\ answer.authorized = Ok(PyTrue)
    /\ Truthy(Get(context, k_role))
    /\ Get(context, k_authorized) = PyTrue

\* the identity returned by the authenticator that was called last
C29_Identity == ItemsOf(authenticators[calls[Len(calls)].i].val)

\* the claim as worded: without a role the context's role is None
C29_AsClaimed ==
    C29_Passed
        => \/ C29_Granted
           \/ /\ ~C29_Asked
              /\ Get(context, k_role) = PyNone
              /\ Get(context, k_authorized) = PyFalse

\* C29: whenever process_resource returns normally for a request that required
\* authentication, either control.authorized returned True for the
\* authenticated role and req.context["authorized"] is True, or the identity's
\* role is absent or falsy (None, ""): then control.authorized is never
\* called, req.context["role"] is that role (None when absent) and
\* req.context["authorized"] is False.
C29_GrantedOrNoRole ==
    C29_Passed
        => \/ C29_Granted
           \/ /\ ~C29_Asked
              /\ ~Truthy(Get(context, k_role))
              /\ Get(context, k_role) = (IF Len(C29_Identity) > 1 THEN C29_Identity[2]
                                                                  ELSE PyNone)
              /\ Get(context, k_authorized) = PyFalse

\* both cases: a granted role, and an identity without role that went through
C29_Witness ==
    /\ C29_Passed /\ C29_Granted
    /\ Len(calls) = 4

C29_WitnessNoRole ==
    /\ C29_Passed /\ ~C29_Asked
    /\ Get(context, k_role) = PyNone
    /\ control.kind = "resource" /\ control.default_mode = "deny"

-----------------------------------------------------------------------------
(* C24 *)

\* the for loop of ProcessParams.process from parameter i on, run in one go
RECURSIVE C24_Loop(_, _, _, _)
C24_Loop(d, ops, ps, i) ==
    IF i > Len(ps) THEN [exc |-> "none", params |-> d]
    ELSE With(ProcessOne(d, ops, ps[i]),
              LAMBDA r : IF r.exc # "none" THEN [exc |-> r.exc, params |-> r.params]
                         ELSE C24_Loop(r.params, ops, ps, i + 1))

C24_Processed(r, ps) ==
    C24_Loop(IF r.operators # <<>>
             THEN Set(r.params, s_operators, DictValue(r.operators))
             ELSE r.params,
             r.operators, ps, 1)

\* what process_resource gives a request that is processed alone
C24_Single(resourceData, r) ==
    IF resourceData = <<>>
    THEN [exc |-> "none", params |-> Merged(r.query, r.captures, r.media)]
    ELSE C24_Processed(parse_operators(Merged(r.query, r.captures, r.media)),
                       get_resource_parameters(resourceData))

\* every finished request has the outcome it has when processed alone
C24_AsAlone ==
    \A i \in DOMAIN inflight :
        inflight[i].pc \in {"done", "raised"}
            => /\ inflight[i].exc = C24_Single(data, inflight[i]).exc
               /\ inflight[i].params = C24_Single(data, inflight[i]).params

\* C24: requests processed in any interleaving leave resource.__data__
\* unchanged, also when in/between or list[T] rewrite a parameter's datatype,
\* and each request resolves to the map it gets when processed alone.
C24_Isolated == [][data' = data]_vars /\ []C24_AsAlone

\* two requests are done, one of them had its parameter's datatype rewritten
\* while the other was in flight
C24_Witness ==
    /\ Len(inflight) = 2
    /\ \A i \in DOMAIN inflight : inflight[i].pc = "done"
    /\ \E i \in DOMAIN inflight :
          /\ inflight[i].schema # get_resource_parameters(data)
          /\ inflight[i].operators # <<>>
    /\ inflight[1].query # inflight[2].query

-----------------------------------------------------------------------------
(* C25 *)

\* the position of the parameter the docstring gives an enum option, or 0
C25_Declared ==
    IF Contains(doc, <<"e","n","u","m","=">> \o a_colors) /\ data # <<>> THEN 1 ELSE 0

-----------------------------------------------------------------------------
(* C26 *)

\* C26: the names of the entries of "parameters" in an operation dict that
\* SphinxParser.parse returned are pairwise distinct, also for a docstring
\* that declares one name on two :param lines.
C26_DistinctNames ==
    (pc # "compile" /\ exc = "none")
        => \A i, j \in DOMAIN data :
              (/\ i # j
               /\ Has(data[i], s_name) /\ Has(data[j], s_name))
                  => Get(data[i], s_name) # Get(data[j], s_name)

-----------------------------------------------------------------------------
(* C27 *)

\* C27: every Parameter that get_resource_parameters builds from a parameter
\* dict of the parser annotated in=path has required == True, whether the
\* annotation says required, says optional or says neither.
C27_PathRequired ==
    (pc \in {"process", "loop", "done", "raised"} /\ Len(schema) = Len(data))
        => \A i \in DOMAIN schema :
              (Has(data[i], s_location) /\ Get(data[i], s_location) = PyStr(s_path))
                  => schema[i].required

-----------------------------------------------------------------------------
(* C28 *)

\* the keys the body gives with their values: the items of a dict body, or
\* what process_form makes of a multipart form
C28_Body ==
    CASE media.kind = "dict" -> media.d
      [] media.kind = "form" -> process_form(media.parts)
      [] OTHER               -> <<>>

\* the merge has run: process is about to start, or the resource has no
\* compiled parameters and process_resource has returned
C28_MergeDone == pc = "process" \/ (data = <<>> /\ pc # "start")

-----------------------------------------------------------------------------
(* C30 *)

\* the part of a key behind its first "__", and the part before it
C30_Suffix(k) == Partition(k, <<"_", "_">>)[3]
C30_Base(k) == Partition(k, <<"_", "_">>)[1]

\* the positions of the merged map whose key has a non-empty suffix on `base`
C30_Suffixed(base) ==
    {i \in DOMAIN MergedMap :
        C30_Base(MergedMap[i].k) = base /\ C30_Suffix(MergedMap[i].k) # <<>>}

\* _parse_operators has just returned and process has added its entry
C30_JustParsed == pc = "loop" /\ idx = 1

\* C30: right after _parse_operators request.params has no key base__suffix
\* with a non-empty suffix, known operator or not: the value of each such key
\* is under base (of several keys on one base, the last one's) and
\* operators[base] is its suffix, split at the first "__"; the other keys keep
\* their values; and request.params has an "operators" entry exactly when
\* some key had a suffix.
C30_SuffixesMoved ==
    C30_JustParsed =>
        /\ \A k \in Keys(params) : C30_Suffix(k) = <<>>
        /\ \A i \in DOMAIN MergedMap :
              With(C30_Base(MergedMap[i].k),
                   LAMBDA base :
                       IF C30_Suffixed(base) # {}
                       THEN /\ Has(params, base) /\ Has(operators, base)
                            /\ Get(params, base) = MergedMap[Max(C30_Suffixed(base))].v
                            /\ Get(operators, base)
                                  = PyStr(C30_Suffix(MergedMap[Max(C30_Suffixed(base))].k))
                       ELSE /\ Has(params, MergedMap[i].k)
                            /\ Get(params, MergedMap[i].k) = MergedMap[i].v
                            /\ ~Has(operators, base))
        /\ Has(params, s_operators)
              <=> \E i \in DOMAIN MergedMap : C30_Suffix(MergedMap[i].k) # <<>>
        /\ Has(params, s_operators) => Get(params, s_operators) = DictValue(operators)

\* a = x and a__zz = 25, a suffix that is no operator: a holds 25
C30_Witness ==
    /\ C30_JustParsed
    /\ query = <<Entry(n_a, PyStr(<<"x">>)), Entry(OpKey(n_a, <<"z", "z">>), PyStr(<<"2","5">>))>>
    /\ Get(params, n_a) = PyStr(<<"2","5">>)
    /\ operators = <<Entry(n_a, PyStr(<<"z", "z">>))>>

=============================================================================
